---- MODULE Spec2Model ----
(***************************************************************************)
(* Model of the phase-2 web API of the todo application: the auth service  *)
(* (signup, signin, token issuance), the token codec, the strict identity  *)
(* dependency of the protected routes and the per-user task CRUD routes;   *)
(* and of the phase-1 console task manager (the in-memory task list).      *)
(***************************************************************************)
EXTENDS Integers, Sequences, FiniteSets, TLC

(***************************************************************************)
(* Bounds of the model.                                                    *)
(***************************************************************************)
MaxUsers == 2
MaxTasks == 2
MaxIssued == 2
MaxTicks == 2
MaxJumps == 1
MaxSalt == 1
\* phase 1: the highest id add_task may give out
MaxConsoleIds == 3
\* phase 1: the ticks of the clock during a console session
MaxConsoleTicks == 1

(***************************************************************************)
(* Program constants.                                                      *)
(***************************************************************************)
ACCESS_TOKEN_EXPIRE_SECONDS == 604800
REFRESH_TOKEN_EXPIRE_SECONDS == 2592000
MIN_PASSWORD_LENGTH == 8
MAX_PASSWORD_LENGTH == 72
EXPIRES_IN == 604800
\* resolution of datetime.utcnow() relative to the whole seconds a JWT carries
TicksPerSecond == 2
\* phase 1, Task.__post_init__
MAX_TITLE_LENGTH == 200
MAX_DESCRIPTION_LENGTH == 1000
MAX_TAGS == 5
MAX_TAG_LENGTH == 20

None == "None"
\* None where a string (a sequence of characters) may stand
NoneStr == <<None>>

VARIABLES
    users,      \* the users table: a set of user records
    tasks,      \* the tasks table: a set of task records
    nextTaskId, \* the autoincrement sequence of tasks.id
    now,        \* the clock, in ticks
    issued,     \* the results of the last MaxIssued calls of generate_tokens
    settings,   \* the settings instance the token codec holds
    console_tasks, \* phase 1: the list `tasks` of task_manager.py
    added_ids,  \* phase 1: the ids add_task has given out (history)
    inflight,   \* the by-id task requests between their lookup and their commit
    req,        \* the request handled last
    resp        \* the response to it

(***************************************************************************)
(* Strings are sequences of characters; str.lower() and str.strip().       *)
(***************************************************************************)
LowerChar(c) ==
    CASE c = "A" -> "a"
      [] c = "B" -> "b"
      [] OTHER -> c

Lower(s) == [i \in 1..Len(s) |-> LowerChar(s[i])]

RECURSIVE LStrip(_)
LStrip(s) == IF s # <<>> /\ Head(s) = " " THEN LStrip(Tail(s)) ELSE s

RECURSIVE RStrip(_)
RStrip(s) ==
    IF s # <<>> /\ s[Len(s)] = " " THEN RStrip(SubSeq(s, 1, Len(s) - 1)) ELSE s

Strip(s) == RStrip(LStrip(s))

\* lower() without strip()
NormalizeEmailNoStrip(email) == Lower(email)

\* str(request.email).lower().strip()
NormalizeEmail(email) == Strip(Lower(email))

\* request.name.strip() if request.name else None
NormalizeName(name) == IF name = NoneStr \/ name = <<>> THEN NoneStr ELSE Strip(name)

(***************************************************************************)
(* Inputs.                                                                 *)
(***************************************************************************)
Pw(c, n) == [i \in 1..n |-> c]

RawEmails == { <<"a">>, <<"A", " ">>, <<"b">> }

Passwords ==
    { Pw("p", MIN_PASSWORD_LENGTH - 1), Pw("p", MIN_PASSWORD_LENGTH),
      Pw("p", MAX_PASSWORD_LENGTH), Pw("p", MAX_PASSWORD_LENGTH + 1) }

\* the character U+0000, which JSON and str carry and a PostgreSQL text
\* column refuses
NUL == "NUL"

Names == { NoneStr, <<"n", " ">>, <<"n", NUL>> }

\* a text value the store accepts
Storable(text) == \A i \in 1..Len(text) : text[i] # NUL

UserIds == {[uuid |-> n] : n \in 1..MaxUsers}

(***************************************************************************)
(* Credential hasher: argon2 with a random salt per hash.                  *)
(***************************************************************************)
Salts == 1..MaxSalt

hash_password(password, salt) == [salt |-> salt, digest |-> password]

verify_password(plain_password, hashed_password) ==
    hashed_password.digest = plain_password

(***************************************************************************)
(* Identifiers: a user id is a UUID, carried in tokens in its string form. *)
(* The n-th UUID is [uuid |-> n] and its text <<"uuid", n>>; the id of an  *)
(* integer column is [int |-> n] and its text <<"int", n>>; a str s is      *)
(* [str |-> s].                                                            *)
(***************************************************************************)
IsUUID(v) == DOMAIN v = {"uuid"}

IsInt(v) == DOMAIN v = {"int"}

\* str(x) of an int, of a str (itself) and of a UUID
Str(uuid) ==
    IF IsInt(uuid) THEN <<"int", uuid.int>>
    ELSE IF DOMAIN uuid = {"str"} THEN uuid.str
    ELSE <<"uuid", uuid.uuid>>

IsUuidString(s) == Len(s) = 2 /\ s[1] = "uuid"

UUID(s) == [uuid |-> s[2]]

(***************************************************************************)
(* Settings.                                                               *)
(***************************************************************************)
MIN_SECRET_LENGTH == 32

\* the default of Settings.BETTER_AUTH_SECRET, 47 characters
DefaultSecret == Pw("s", 47)

\* Settings(): the secret of the environment, the default when it is not set
Settings(env) ==
    [loaded |-> TRUE, BETTER_AUTH_SECRET |-> IF env = NoneStr THEN DefaultSecret ELSE env]

\* no settings instance: the module has not been imported
NotLoaded == [loaded |-> FALSE, BETTER_AUTH_SECRET |-> <<>>]

\* a check that lets a secret of 31 characters through
validate_settings_31(s) == Len(s.BETTER_AUTH_SECRET) >= MIN_SECRET_LENGTH - 1

\* Settings.validate_settings: TRUE when it returns, FALSE when it raises
validate_settings(s) == Len(s.BETTER_AUTH_SECRET) >= MIN_SECRET_LENGTH

\* settings.BETTER_AUTH_SECRET, read at every encode and decode
BETTER_AUTH_SECRET == settings.BETTER_AUTH_SECRET
ALGORITHM == "HS256"

(***************************************************************************)
(* Token codec.  A token has a header (alg), claims and a signature; the   *)
(* HMAC is a function of the key and of what is signed.                    *)
(***************************************************************************)
NoClaims == [sub |-> <<>>, exp |-> 0, iat |-> 0, type |-> ""]

Sign(key, alg, claims) == [key |-> key, alg |-> alg, claims |-> claims]

NoSignature == Sign(<<>>, "", NoClaims)

\* the empty string and a string that is no JWT ("invalidtoken")
EmptyToken == [segments |-> 0, alg |-> "", claims |-> NoClaims, sig |-> NoSignature]
GarbageToken == [segments |-> 1, alg |-> "", claims |-> NoClaims, sig |-> NoSignature]

\* timegm(dt.utctimetuple()): a datetime claim is encoded in whole seconds
ToSeconds(ticks) == ticks \div TicksPerSecond

timedelta(seconds) == seconds * TicksPerSecond

\* jose.jwt.encode: datetime claims become integers, then HS256 over the claims
jwt_encode(payload, key, algorithm) ==
    LET claims == [payload EXCEPT !.exp = ToSeconds(payload.exp),
                                  !.iat = ToSeconds(payload.iat)]
    IN [segments |-> 3, alg |-> algorithm, claims |-> claims,
        sig |-> Sign(key, algorithm, claims)]

\* expires_delta: <<>> is None, <<d>> a timedelta of d ticks
NoDelta == <<>>

\* t1 and t2 are the two readings of datetime.utcnow(), t1 <= t2
create_access_token(user_id, expires_delta, t1, t2) ==
    LET delta == IF expires_delta = NoDelta THEN timedelta(ACCESS_TOKEN_EXPIRE_SECONDS)
                 ELSE expires_delta[1]
    IN jwt_encode([sub |-> Str(user_id),
                   exp |-> t1 + delta,
                   iat |-> t2,
                   type |-> "access"],
                  BETTER_AUTH_SECRET, ALGORITHM)

\* a refresh token issued under the type of the access token
create_refresh_token_as_access(user_id, expires_delta, t1, t2) ==
    create_access_token(user_id,
                        IF expires_delta = NoDelta
                        THEN <<timedelta(REFRESH_TOKEN_EXPIRE_SECONDS)>>
                        ELSE expires_delta,
                        t1, t2)

create_refresh_token(user_id, expires_delta, t1, t2) ==
    LET delta == IF expires_delta = NoDelta THEN timedelta(REFRESH_TOKEN_EXPIRE_SECONDS)
                 ELSE expires_delta[1]
    IN jwt_encode([sub |-> Str(user_id),
                   exp |-> t1 + delta,
                   iat |-> t2,
                   type |-> "refresh"],
                  BETTER_AUTH_SECRET, ALGORITHM)


(***************************************************************************)
(* Error messages are sequences of words; `"expired" in str(e).lower()`    *)
(* looks for a word of the lower-cased message.                            *)
(***************************************************************************)
LowerWord(w) ==
    CASE w = "Signature" -> "signature"
      [] w = "Token" -> "token"
      [] w = "The" -> "the"
      [] w = "Not" -> "not"
      [] OTHER -> w

Contains(msg, word) == \E i \in 1..Len(msg) : LowerWord(msg[i]) = word

MsgNotEnoughSegments == <<"Not", "enough", "segments">>
MsgAlgNotAllowed == <<"The", "specified", "alg", "value", "is", "not", "allowed">>
MsgSignatureFailed == <<"Signature", "verification", "failed">>
MsgSignatureExpired == <<"Signature", "has", "expired">>

\* jose.jwt.decode: structure, algorithm, signature, then the exp claim
jwt_decode(token, key, algorithms, t) ==
    IF token.segments # 3
    THEN [ok |-> FALSE, payload |-> NoClaims, msg |-> MsgNotEnoughSegments]
    ELSE IF token.alg \notin algorithms
    THEN [ok |-> FALSE, payload |-> NoClaims, msg |-> MsgAlgNotAllowed]
    ELSE IF token.sig # Sign(key, token.alg, token.claims)
    THEN [ok |-> FALSE, payload |-> NoClaims, msg |-> MsgSignatureFailed]
    ELSE IF token.claims.exp < ToSeconds(t)
    THEN [ok |-> FALSE, payload |-> NoClaims, msg |-> MsgSignatureExpired]
    ELSE [ok |-> TRUE, payload |-> token.claims, msg |-> <<>>]

\* a wrapper that drops the message of the error it wraps
verify_token_generic(token, t) ==
    LET r == jwt_decode(token, BETTER_AUTH_SECRET, {ALGORITHM}, t)
    IN IF r.ok THEN r
       ELSE [r EXCEPT !.msg = <<"Token", "verification", "failed">>]

\* raise JWTError(f"Token verification failed: {str(e)}")
verify_token(token, t) ==
    LET r == jwt_decode(token, BETTER_AUTH_SECRET, {ALGORITHM}, t)
    IN IF r.ok THEN r
       ELSE [r EXCEPT !.msg = <<"Token", "verification", "failed:">> \o r.msg]

MsgMissingSub == <<"Token", "missing", "'sub'", "claim">>

\* an extraction that hands on whatever sub the claims hold
extract_user_id_unchecked(token, t) ==
    LET r == verify_token(token, t)
    IN IF ~r.ok THEN [ok |-> FALSE, user_id |-> <<>>, msg |-> r.msg]
       ELSE [ok |-> TRUE, user_id |-> r.payload.sub, msg |-> <<>>]

\* extract_user_id: verify_token, then the sub claim or JWTError
extract_user_id(token, t) ==
    LET r == verify_token(token, t)
    IN IF ~r.ok THEN [ok |-> FALSE, user_id |-> <<>>, msg |-> r.msg]
       ELSE IF r.payload.sub = <<>>
       THEN [ok |-> FALSE, user_id |-> <<>>, msg |-> MsgMissingSub]
       ELSE [ok |-> TRUE, user_id |-> r.payload.sub, msg |-> <<>>]

(***************************************************************************)
(* Typed failures and their responses.                                     *)
(***************************************************************************)
AuthError(status_code, error_code, message) ==
    [status_code |-> status_code, error |-> error_code, message |-> message]

InvalidCredentialsError == AuthError(401, "AUTH_INVALID_CREDENTIALS", "Invalid credentials")
EmailExistsError == AuthError(409, "AUTH_EMAIL_EXISTS", "Email already registered")
WeakPasswordError == AuthError(422, "AUTH_WEAK_PASSWORD", "Password must be at least 8 characters")
TokenExpiredError == AuthError(401, "AUTH_TOKEN_EXPIRED", "Token expired")
TokenInvalidError == AuthError(401, "AUTH_TOKEN_INVALID", "Invalid token")
TokenMissingError == AuthError(401, "AUTH_TOKEN_MISSING", "Token required")

NoError == AuthError(0, "", "")

\* the request-validation failure of the framework for a body off the schema
RequestValidationError == AuthError(422, "REQUEST_VALIDATION", "validation error")

(***************************************************************************)
(* Strict dependency.  An Authorization header is the sequence of its      *)
(* space-separated parts, <<>> when the header is absent.                  *)
(***************************************************************************)
get_authorization_scheme_param(header) ==
    IF header = <<>> THEN [scheme |-> "", param |-> EmptyToken]
    ELSE IF Len(header) = 1 THEN [scheme |-> header[1], param |-> EmptyToken]
    ELSE [scheme |-> header[1], param |-> header[2]]

LowerScheme(scheme) == IF scheme = "Bearer" THEN "bearer" ELSE scheme

\* a bearer scheme that takes any scheme name
securityAnyScheme(header) ==
    LET sp == get_authorization_scheme_param(header)
    IN IF header = <<>> \/ sp.scheme = "" \/ sp.param = EmptyToken
       THEN [present |-> FALSE, credentials |-> EmptyToken]
       ELSE [present |-> TRUE, credentials |-> sp.param]

\* security = HTTPBearer(auto_error=False)
security(header) ==
    LET sp == get_authorization_scheme_param(header)
    IN IF header = <<>> \/ sp.scheme = "" \/ sp.param = EmptyToken
       THEN [present |-> FALSE, credentials |-> EmptyToken]
       ELSE IF LowerScheme(sp.scheme) # "bearer"
       THEN [present |-> FALSE, credentials |-> EmptyToken]
       ELSE [present |-> TRUE, credentials |-> sp.param]

\* a dependency that takes access tokens only
get_current_user_id_access_only(header, t) ==
    LET credentials == security(header)
        r == verify_token(credentials.credentials, t)
    IN IF ~credentials.present
       THEN [ok |-> FALSE, user_id |-> <<>>, error |-> TokenMissingError]
       ELSE IF r.ok
       THEN IF r.payload.sub = <<>> \/ r.payload.type # "access"
            THEN [ok |-> FALSE, user_id |-> <<>>, error |-> TokenInvalidError]
            ELSE [ok |-> TRUE, user_id |-> r.payload.sub, error |-> NoError]
       ELSE IF Contains(r.msg, "expired")
       THEN [ok |-> FALSE, user_id |-> <<>>, error |-> TokenExpiredError]
       ELSE [ok |-> FALSE, user_id |-> <<>>, error |-> TokenInvalidError]

get_current_user_id(header, t) ==
    LET credentials == security(header)
        r == verify_token(credentials.credentials, t)
    IN IF ~credentials.present
       THEN [ok |-> FALSE, user_id |-> <<>>, error |-> TokenMissingError]
       ELSE IF r.ok
       THEN IF r.payload.sub = <<>>
            THEN [ok |-> FALSE, user_id |-> <<>>, error |-> TokenInvalidError]
            ELSE [ok |-> TRUE, user_id |-> r.payload.sub, error |-> NoError]
       ELSE IF Contains(r.msg, "expired")
       THEN [ok |-> FALSE, user_id |-> <<>>, error |-> TokenExpiredError]
       ELSE [ok |-> FALSE, user_id |-> <<>>, error |-> TokenInvalidError]

(***************************************************************************)
(* Permissive middleware.  exclude_paths is the set of paths the instance  *)
(* was constructed with.  The result tells whether verify_token was        *)
(* called, what was put on request.state, the JWTError caught, and whether *)
(* the branch taken ends in `return await call_next(request)`.             *)
(***************************************************************************)
SkippedPaths == {"/health", "/", "/docs", "/redoc", "/openapi.json"}

\* a test for a scheme and a parameter, whatever the scheme
StartsWithAnyScheme(header) == Len(header) >= 2

\* auth_header.startswith("Bearer "): the scheme, then a space
StartsWithBearer(header) == Len(header) >= 2 /\ header[1] = "Bearer"

\* request.state as the middleware leaves it
\* logged: the log records __call__ writes (it has no logger: none)
Untouched ==
    [verified |-> FALSE, user_id |-> <<>>, caught |-> <<>>, logged |-> <<>>,
     call_next |-> TRUE]

\* a middleware that answers a token that does not verify itself
AuthMiddlewareBlocking(exclude_paths, path, header, t) ==
    IF path \in exclude_paths \/ path \in SkippedPaths THEN Untouched
    ELSE IF header = <<>> \/ ~StartsWithBearer(header) THEN Untouched
    ELSE IF header[2] = EmptyToken THEN Untouched
    ELSE LET r == verify_token(header[2], t)
         IN IF r.ok
            THEN [Untouched EXCEPT !.verified = TRUE, !.user_id = r.payload.sub]
            ELSE [Untouched EXCEPT !.verified = TRUE, !.caught = r.msg,
                                   !.call_next = FALSE]

\* AuthMiddleware.__call__, up to the call of call_next
AuthMiddleware(exclude_paths, path, header, t) ==
    IF path \in exclude_paths \/ path \in SkippedPaths THEN Untouched
    ELSE IF header = <<>> \/ ~StartsWithBearer(header) THEN Untouched
    ELSE IF header[2] = EmptyToken THEN Untouched
    ELSE LET r == verify_token(header[2], t)
         IN IF r.ok
            THEN [Untouched EXCEPT !.verified = TRUE, !.user_id = r.payload.sub]
            ELSE [Untouched EXCEPT !.verified = TRUE, !.caught = r.msg]

\* getattr(request.state, "user_id", None)
get_user_id_from_request(state) == IF state.user_id = <<>> THEN NoneStr ELSE state.user_id

(***************************************************************************)
(* The clock.  A token lifetime is far longer than a request, so the clock *)
(* advances by single ticks and by jumps of one access-token lifetime.     *)
(***************************************************************************)
JumpTicks == timedelta(ACCESS_TOKEN_EXPIRE_SECONDS)

CanTick(t) == (t % JumpTicks) < MaxTicks

CanJump(t) == (t \div JumpTicks) < MaxJumps

\* The readings of datetime.utcnow() made while one request is handled: the
\* clock may tick once, after the k-th of the n readings (k = n: no tick).
Reading(t, k, i) == IF i > k THEN t + 1 ELSE t

AfterReadings(t, k, n) == IF k < n THEN t + 1 ELSE t

TickPoints(t, n) == IF CanTick(t) THEN 0..n ELSE {n}

(***************************************************************************)
(* Users table.                                                            *)
(***************************************************************************)
User(id, email, password_hash, name, t) ==
    [id |-> id, email |-> email, password_hash |-> password_hash, name |-> name,
     created_at |-> t, updated_at |-> t, is_active |-> TRUE]

\* a users table without the unique index
EmailTakenNoIndex(table, email) == FALSE

\* the unique index on users.email
EmailTaken(table, email) == \E u \in table : u.email = email

\* select(User).where(User.email == email) ... scalar_one_or_none()
FindByEmail(table, email) == {u \in table : u.email = email}

UserResponse(user) ==
    [id |-> Str(user.id), email |-> user.email, name |-> user.name,
     created_at |-> user.created_at, updated_at |-> user.updated_at,
     is_active |-> user.is_active]

\* AuthService.generate_tokens; four clock readings, two per token
generate_tokens(user_id, t, k) ==
    [access_token |-> create_access_token(user_id, NoDelta, Reading(t, k, 1), Reading(t, k, 2)),
     refresh_token |-> create_refresh_token(user_id, NoDelta, Reading(t, k, 3), Reading(t, k, 4)),
     token_type |-> "bearer",
     expires_in |-> EXPIRES_IN]

\* the record of the last MaxIssued calls of generate_tokens
Remember(log, entry) ==
    IF Len(log) < MaxIssued THEN Append(log, entry) ELSE Append(Tail(log), entry)

ErrorResponse(exc) ==
    [status_code |-> exc.status_code, error |-> exc.error, message |-> exc.message]

\* SignupRequest.password: min_length=8, max_length=72
SignupRequestValid(password) ==
    Len(password) >= MIN_PASSWORD_LENGTH /\ Len(password) <= MAX_PASSWORD_LENGTH

\* the password check with the upper limit off by one
WeakPasswordOffByOne(password) ==
    Len(password) < MIN_PASSWORD_LENGTH \/ Len(password) >= MAX_PASSWORD_LENGTH

\* AuthService.signup, the password check
WeakPassword(password) ==
    Len(password) < MIN_PASSWORD_LENGTH \/ Len(password) > MAX_PASSWORD_LENGTH

(***************************************************************************)
(* Tasks: schemas and table.  A request body is the record of the JSON     *)
(* keys sent; Unset marks a key that was not sent, and user_id is a key    *)
(* the schemas do not declare (<<>> when not sent).                        *)
(***************************************************************************)
Unset == "<unset>"

TaskFields == {"title", "status", "priority"}

Body(title, status, priority, user_id) ==
    [title |-> title, status |-> status, priority |-> priority, user_id |-> user_id]

\* TaskBase: title is required, min_length=1
TaskCreateValid(body) == body.title # Unset /\ body.title # ""

\* TaskCreate(...).dict(): declared fields only, defaults for those not sent
TaskCreateDict(body) ==
    [title |-> body.title,
     status |-> IF body.status = Unset THEN "pending" ELSE body.status,
     priority |-> IF body.priority = Unset THEN "medium" ELSE body.priority]

\* TaskUpdate: every field optional, title min_length=1 when sent
TaskUpdateValid(body) == body.title # ""

\* TaskUpdate(...).dict(exclude_unset=True): the declared fields that were sent
TaskUpdateDict(body) ==
    [f \in {g \in TaskFields : body[g] # Unset} |-> body[f]]

\* for field, value in data.items(): setattr(task, field, value)
SetAttrs(task, data) ==
    [f \in DOMAIN task |-> IF f \in DOMAIN data THEN data[f] ELSE task[f]]

Task(id, data, user_id, t) ==
    [id |-> id, user_id |-> user_id, title |-> data.title, status |-> data.status,
     priority |-> data.priority, created_at |-> t, updated_at |-> t]

\* an owner taken from the body when the body names one
TaskOwnerFromBody(body, user_id) ==
    IF body.user_id # <<>> THEN UUID(body.user_id) ELSE UUID(user_id)

\* create_task: Task(**task_in.dict(), user_id=UUID(user_id))
TaskOwner(body, user_id) == UUID(user_id)

\* TaskResponse.model_validate(task): id and user_id are UUID fields, which
\* take a UUID, a str or bytes, and no int
TaskResponseValid(task) == IsUUID(task.id) /\ IsUUID(task.user_id)

TaskResponse(task) ==
    [id |-> task.id, user_id |-> task.user_id, title |-> task.title,
     status |-> task.status, priority |-> task.priority,
     created_at |-> task.created_at, updated_at |-> task.updated_at]

\* task_id: UUID, the path parameter
PathValid(task_id) == IsUuidString(task_id)

\* db.get(Task, task_id) with the UUID of the path as key of the integer
\* column tasks.id: the driver refuses the argument, or no row has the key
GetTaskById(table, task_id) ==
    IF IsInt(task_id)
    THEN {[raised |-> FALSE, found |-> {x \in table : x.id = task_id}]}
    ELSE {[raised |-> TRUE, found |-> {}], [raised |-> FALSE, found |-> {}]}

\* detail=ErrorDetail(...), a model object
ErrorDetail(error, message) ==
    [kind |-> "ErrorDetail", error |-> error, message |-> message]

\* detail={"error": ..., "message": ...}
DictDetail(error, message) == [kind |-> "dict", error |-> error, message |-> message]

HTTPException(status_code, detail) == [status_code |-> status_code, detail |-> detail]

NoException == HTTPException(0, DictDetail("", ""))

TaskNotFound(op) ==
    HTTPException(404, IF op = "get_task"
                       THEN ErrorDetail("TASK_NOT_FOUND", "Task not found")
                       ELSE DictDetail("TASK_NOT_FOUND", "Task not found"))

TaskNotAuthorized(op) ==
    HTTPException(403, IF op = "get_task"
                       THEN ErrorDetail("TASK_NOT_AUTHORIZED",
                                        "Not authorized to access this task")
                       ELSE DictDetail("TASK_NOT_AUTHORIZED", "Not authorized"))

InvalidSortField ==
    HTTPException(400, ErrorDetail("INVALID_SORT_FIELD", "Invalid sort field"))

\* general_exception_handler (DEBUG: the message is str(exc))
InternalServerError ==
    [status_code |-> 500, error |-> "INTERNAL_SERVER_ERROR", message |-> "str(exc)"]

\* Settings.DEBUG (default)
DEBUG == TRUE

\* the DBAPIError the engine raises for a statement the store refuses (other
\* than IntegrityError and OperationalError); the engine is created without
\* hide_parameters, so its str() is the message of the driver followed by
\* [SQL: statement] and [parameters: (...)]
DBAPIError(orig, statement, parameters) ==
    [orig |-> orig, statement |-> statement, parameters |-> parameters]

\* general_exception_handler for an exception no other handler takes; text
\* is what str(exc) reads, the content of the message field
general_exception_handler(exc) ==
    IF DEBUG
    THEN [status_code |-> 500, error |-> "INTERNAL_SERVER_ERROR", message |-> "str(exc)",
          text |-> exc]
    ELSE [status_code |-> 500, error |-> "INTERNAL_SERVER_ERROR",
          message |-> "An internal server error occurred"]

\* value_error_handler: UUID(user_id) of a string that is no UUID, and the
\* ValidationError of TaskResponse.model_validate
ValueErrorResponse ==
    [status_code |-> 422, error |-> "VALIDATION_ERROR", message |-> "str(exc)"]

\* the answer to a raised HTTPException: JSONResponse({"detail": exc.detail}),
\* whose json.dumps takes a dict and raises TypeError for a model object
http_exception_handler(exc) ==
    IF exc.detail.kind = "ErrorDetail" THEN InternalServerError
    ELSE [status_code |-> exc.status_code, error |-> exc.detail.error,
          message |-> exc.detail.message]

(***************************************************************************)
(* list_tasks: where clause, sort parsing, ordering and the page.  The     *)
(* sort parameter is the sequence of its comma-separated terms, each the   *)
(* sequence of its colon-separated parts.                                  *)
(***************************************************************************)
allowed_fields == {"id", "title", "status", "priority", "due_date", "created_at", "updated_at"}

\* s.rsplit(':', 1): a term has one or two parts
SortField(term) == term[1]

SortDirection(term) == IF Len(term) >= 2 THEN term[Len(term)] ELSE "asc"

SortValid(sort) == \A i \in 1..Len(sort) : SortField(sort[i]) \in allowed_fields

\* the where clause without Task.user_id == user_uuid
WhereAnyOwner(table, user_uuid, status, priority) ==
    {x \in table : /\ status # None => x.status = status
                   /\ priority # None => x.priority = priority}

Where(table, user_uuid, status, priority) ==
    {x \in table : /\ x.user_id = user_uuid
                   /\ status # None => x.status = status
                   /\ priority # None => x.priority = priority}

\* x strictly precedes y under ORDER BY sort[i], sort[i+1], ...
RECURSIVE Precedes(_, _, _, _)
Precedes(x, y, sort, i) ==
    IF i > Len(sort) THEN FALSE
    ELSE LET f == SortField(sort[i])
             kx == IF f = "id" THEN x.id.int ELSE x[f]
             ky == IF f = "id" THEN y.id.int ELSE y[f]
             a == IF SortDirection(sort[i]) = "desc" THEN ky ELSE kx
             b == IF SortDirection(sort[i]) = "desc" THEN kx ELSE ky
         IN IF a < b THEN TRUE
            ELSE IF b < a THEN FALSE
            ELSE Precedes(x, y, sort, i + 1)

\* the row orders the store may return: rows equal on the sort keys in any order
Orderings(rows, sort) ==
    {o \in [1..Cardinality(rows) -> rows] :
        /\ \A i, j \in 1..Cardinality(rows) : i # j => o[i] # o[j]
        /\ \A i, j \in 1..Cardinality(rows) : i < j => ~Precedes(o[j], o[i], sort, 1)}

\* .offset((page - 1) * limit).limit(limit)
Page(rows, page, limit) ==
    LET first == (page - 1) * limit + 1
        last == IF page * limit < Len(rows) THEN page * limit ELSE Len(rows)
    IN SubSeq(rows, first, last)

\* the identities the strict dependency hands to the task routes
Callers == {<<"uuid", n>> : n \in 1..MaxUsers}

\* no request of the caller is under way
Idle == [op |-> "idle"]

vars == <<users, tasks, nextTaskId, now, issued, settings, console_tasks, added_ids, inflight,
          req, resp>>

NoRequest == [op |-> "none"]
NoResponse == [status_code |-> 0, error |-> "", message |-> ""]

Init ==
    /\ users = {}
    /\ tasks = {}
    /\ nextTaskId = 1
    /\ now = 0
    /\ issued = <<>>
    /\ settings = Settings(NoneStr)
    /\ console_tasks = <<>>
    /\ added_ids = {}
    /\ inflight = [c \in Callers |-> Idle]
    /\ req = NoRequest
    /\ resp = NoResponse

\* uuid4(): an id no other user has; ids are opaque, the model takes the least
FreeUserIds == {i \in UserIds : \A u \in users : u.id # i}

NewUserId ==
    IF FreeUserIds = {} THEN [uuid |-> 0]
    ELSE CHOOSE i \in FreeUserIds : \A j \in FreeUserIds : i.uuid <= j.uuid

(***************************************************************************)
(* POST /signup.  via = "route" is a request through the endpoint (the     *)
(* SignupRequest schema validates the body first), via = "service" a       *)
(* direct call of AuthService.signup.  The only access of a signup to the  *)
(* store is the INSERT its commit sends, which the unique index on email   *)
(* decides atomically: concurrent signups are interleavings of this step.  *)
(***************************************************************************)
SignupRejected(via, email, password) ==
    /\ \/ via = "route" /\ ~SignupRequestValid(password)
       \/ via = "service" /\ WeakPassword(password)
    /\ req' = [op |-> "signup", via |-> via, email |-> email, password |-> password,
               name |-> NoneStr]
    /\ resp' = IF via = "route" /\ ~SignupRequestValid(password)
               THEN ErrorResponse(RequestValidationError)
               ELSE ErrorResponse(WeakPasswordError)
    /\ UNCHANGED <<users, tasks, nextTaskId, now, issued, settings, console_tasks, added_ids, inflight>>

\* a signup that writes its record over the one holding the email before it
\* answers EmailExists
SignupOverwriting(via, email, password, name, salt, k) ==
    LET user == User(NewUserId, NormalizeEmail(email), hash_password(password, salt),
                     NormalizeName(name), now)
    IN /\ via = "route" => SignupRequestValid(password)
       /\ ~WeakPassword(password)
       /\ req' = [op |-> "signup", via |-> via, email |-> email, password |-> password,
                  name |-> name]
       /\ IF ~Storable(user.name)
          THEN \* the INSERT is refused when its parameters are read, before
               \* the unique index is consulted; only IntegrityError is
               \* caught, by the service and by the route
               LET exc == DBAPIError("CharacterNotInRepertoireError",
                                     "INSERT INTO users", user)
               IN /\ resp' = IF via = "route" THEN general_exception_handler(exc)
                             ELSE [status_code |-> 0, error |-> "DBAPIError",
                                   message |-> "str(exc)", text |-> exc]
                  /\ UNCHANGED <<users, now, issued>>
          ELSE IF EmailTaken(users, user.email)
          THEN /\ resp' = ErrorResponse(EmailExistsError)
               /\ users' = {IF u.email = user.email THEN [user EXCEPT !.id = u.id] ELSE u
                              : u \in users}
               /\ UNCHANGED <<now, issued>>
          ELSE /\ FreeUserIds # {}
               /\ users' = users \cup {user}
               /\ IF via = "route"
                  THEN LET tokens == generate_tokens(user.id, now, k)
                       IN /\ now' = AfterReadings(now, k, 4)
                          /\ issued' = Remember(issued, [user_id |-> user.id, tokens |-> tokens])
                          /\ resp' = [status_code |-> 201, error |-> "", message |-> "",
                                      body |-> [user |-> UserResponse(user), tokens |-> tokens]]
                  ELSE /\ resp' = [status_code |-> 0, error |-> "", message |-> "",
                                   body |-> [user |-> user]]
                       /\ UNCHANGED <<now, issued>>
       /\ UNCHANGED <<tasks, nextTaskId, settings, console_tasks, added_ids, inflight>>

Signup(via, email, password, name, salt, k) ==
    LET user == User(NewUserId, NormalizeEmail(email), hash_password(password, salt),
                     NormalizeName(name), now)
    IN /\ via = "route" => SignupRequestValid(password)
       /\ ~WeakPassword(password)
       /\ req' = [op |-> "signup", via |-> via, email |-> email, password |-> password,
                  name |-> name]
       /\ IF ~Storable(user.name)
          THEN \* the INSERT is refused when its parameters are read, before
               \* the unique index is consulted; only IntegrityError is
               \* caught, by the service and by the route
               LET exc == DBAPIError("CharacterNotInRepertoireError",
                                     "INSERT INTO users", user)
               IN /\ resp' = IF via = "route" THEN general_exception_handler(exc)
                             ELSE [status_code |-> 0, error |-> "DBAPIError",
                                   message |-> "str(exc)", text |-> exc]
                  /\ UNCHANGED <<users, now, issued>>
          ELSE IF EmailTaken(users, user.email)
          THEN \* IntegrityError: rollback, EmailExistsError
               /\ resp' = ErrorResponse(EmailExistsError)
               /\ UNCHANGED <<users, now, issued>>
          ELSE /\ FreeUserIds # {}
               /\ users' = users \cup {user}
               /\ IF via = "route"
                  THEN LET tokens == generate_tokens(user.id, now, k)
                       IN /\ now' = AfterReadings(now, k, 4)
                          /\ issued' = Remember(issued, [user_id |-> user.id, tokens |-> tokens])
                          /\ resp' = [status_code |-> 201, error |-> "", message |-> "",
                                      body |-> [user |-> UserResponse(user), tokens |-> tokens]]
                  ELSE /\ resp' = [status_code |-> 0, error |-> "", message |-> "",
                                   body |-> [user |-> user]]
                       /\ UNCHANGED <<now, issued>>
       /\ UNCHANGED <<tasks, nextTaskId, settings, console_tasks, added_ids, inflight>>

(***************************************************************************)
(* POST /signin.                                                           *)
(***************************************************************************)
SigninCause(email, password) ==
    LET found == FindByEmail(users, NormalizeEmail(email))
    IN IF found = {} THEN "no_user"
       ELSE LET user == CHOOSE u \in found : TRUE
            IN IF ~user.is_active THEN "inactive"
               ELSE IF ~verify_password(password, user.password_hash) THEN "bad_password"
               ELSE "ok"

\* a signin that tells the inactive account apart
SigninFailureTelling(cause) ==
    CASE cause = "no_user" -> ErrorResponse(InvalidCredentialsError)
      [] cause = "inactive" -> ErrorResponse(AuthError(403, "AUTH_FORBIDDEN", "Access denied"))
      [] cause = "bad_password" -> ErrorResponse(InvalidCredentialsError)

\* the three raise sites of AuthService.signin
SigninFailure(cause) ==
    CASE cause = "no_user" -> ErrorResponse(InvalidCredentialsError)
      [] cause = "inactive" -> ErrorResponse(InvalidCredentialsError)
      [] cause = "bad_password" -> ErrorResponse(InvalidCredentialsError)

Signin(email, password, k) ==
    LET found == FindByEmail(users, NormalizeEmail(email))
        cause == SigninCause(email, password)
    IN /\ req' = [op |-> "signin", email |-> email, password |-> password, cause |-> cause]
       /\ IF cause = "ok"
          THEN LET user == CHOOSE u \in found : TRUE
                   tokens == generate_tokens(user.id, now, k)
               IN /\ now' = AfterReadings(now, k, 4)
                  /\ issued' = Remember(issued, [user_id |-> user.id, tokens |-> tokens])
                  /\ resp' = [status_code |-> 200, error |-> "", message |-> "",
                              body |-> [user |-> UserResponse(user), tokens |-> tokens]]
          ELSE /\ resp' = SigninFailure(cause)
               /\ UNCHANGED <<now, issued>>
       /\ UNCHANGED <<users, tasks, nextTaskId, settings, console_tasks, added_ids, inflight>>

\* AuthService.get_user_by_email
GetUserByEmail(email) ==
    /\ req' = [op |-> "get_user_by_email", email |-> email]
    /\ resp' = [status_code |-> 0, error |-> "", message |-> "",
                body |-> [users |-> FindByEmail(users, NormalizeEmail(email))]]
    /\ UNCHANGED <<users, tasks, nextTaskId, now, issued, settings, console_tasks, added_ids, inflight>>

\* an account is deactivated in the store (is_active is the soft-delete flag)
DeactivateUser(u) ==
    /\ u \in users
    /\ u.is_active
    /\ users' = (users \ {u}) \cup {[u EXCEPT !.is_active = FALSE]}
    /\ UNCHANGED <<tasks, nextTaskId, now, issued, req, resp, settings, console_tasks, added_ids, inflight>>

\* the record of an account is deleted from the store
RemoveUser(u) ==
    /\ u \in users
    /\ users' = users \ {u}
    /\ UNCHANGED <<tasks, nextTaskId, now, issued, req, resp, settings, console_tasks, added_ids, inflight>>

Tick ==
    /\ CanTick(now)
    /\ now' = now + 1
    /\ UNCHANGED <<users, tasks, nextTaskId, issued, req, resp, settings, console_tasks, added_ids, inflight>>

Jump ==
    /\ CanJump(now)
    /\ now' = now + JumpTicks
    /\ UNCHANGED <<users, tasks, nextTaskId, issued, req, resp, settings, console_tasks, added_ids, inflight>>

(***************************************************************************)
(* Direct calls of the token codec.  The token made by the last call of    *)
(* create_access_token or create_refresh_token stays at hand, with the     *)
(* arguments of that call, for verify_token and extract_user_id.           *)
(***************************************************************************)
CreateToken(kind, user_id, expires_delta, k) ==
    LET t1 == Reading(now, k, 1)
        t2 == Reading(now, k, 2)
        token == IF kind = "access"
                 THEN create_access_token(user_id, expires_delta, t1, t2)
                 ELSE create_refresh_token(user_id, expires_delta, t1, t2)
    IN /\ settings.loaded
       /\ req' = [op |-> "create_token", kind |-> kind, user_id |-> user_id,
                  expires_delta |-> expires_delta, token |-> token, at |-> t2]
       /\ resp' = [ok |-> TRUE, payload |-> NoClaims, user_id |-> <<>>, msg |-> <<>>]
       /\ now' = AfterReadings(now, k, 2)
       /\ UNCHANGED <<users, tasks, nextTaskId, issued, settings, console_tasks, added_ids, inflight>>

\* a token of the codec is at hand
HasToken == req.op \in {"create_token", "verify_token", "extract_user_id"}

VerifyToken ==
    LET r == verify_token(req.token, now)
    IN /\ settings.loaded
       /\ HasToken
       /\ req' = [req EXCEPT !.op = "verify_token", !.at = now]
       /\ resp' = [ok |-> r.ok, payload |-> r.payload, user_id |-> <<>>, msg |-> r.msg]
       /\ UNCHANGED <<users, tasks, nextTaskId, now, issued, settings, console_tasks, added_ids, inflight>>

ExtractUserId ==
    LET r == extract_user_id(req.token, now)
    IN /\ settings.loaded
       /\ HasToken
       /\ req' = [req EXCEPT !.op = "extract_user_id", !.at = now]
       /\ resp' = [ok |-> r.ok, payload |-> NoClaims, user_id |-> r.user_id, msg |-> r.msg]
       /\ UNCHANGED <<users, tasks, nextTaskId, now, issued, settings, console_tasks, added_ids, inflight>>

\* the token at hand in a Bearer header
MintedHeaders == IF HasToken THEN {<<"Bearer", req.token>>} ELSE {}

(***************************************************************************)
(* What a client can present as credentials: the tokens it was issued,     *)
(* and what it can make from them without the secret.                      *)
(***************************************************************************)
IssuedTokens ==
    {issued[i].tokens.access_token : i \in 1..Len(issued)}
        \cup {issued[i].tokens.refresh_token : i \in 1..Len(issued)}

\* the claims rewritten for another subject under the old signature
Tampered(token, user_id) == [token EXCEPT !.claims.sub = Str(user_id)]

\* re-signed by someone who does not hold the secret
Forged(token) == [token EXCEPT !.sig = Sign(Pw("g", 47), token.alg, token.claims)]

\* the unsigned variant, alg "none"
Unsigned(token) == [token EXCEPT !.alg = "none", !.sig = NoSignature]

Credentials ==
    IssuedTokens
        \cup {GarbageToken}
        \cup {Tampered(t, u) : t \in IssuedTokens, u \in UserIds}
        \cup {Forged(t) : t \in IssuedTokens}
        \cup {Unsigned(t) : t \in IssuedTokens}

Headers ==
    {<<>>, <<"Bearer">>}
        \cup {<<"Bearer", t>> : t \in Credentials}
        \cup {<<"bearer", t>> : t \in IssuedTokens}
        \cup {<<"Basic", t>> : t \in IssuedTokens}

(***************************************************************************)
(* A request to a protected route.  The framework first runs the strict    *)
(* dependency (Authenticate): a failure is the response; on success the    *)
(* request waits, with the identity, for its handler.                      *)
(***************************************************************************)
\* a dependency that looks the account up and refuses when there is no
\* active record with the identity of the token
AuthenticateActive(header) ==
    LET auth == get_current_user_id(header, now)
        known == auth.ok /\ \E u \in users : Str(u.id) = auth.user_id /\ u.is_active
    IN /\ req' = [op |-> "auth", header |-> header, at |-> now,
                  ok |-> known, identity |-> IF known THEN auth.user_id ELSE <<>>]
       /\ resp' = IF known THEN NoResponse
                  ELSE IF auth.ok THEN ErrorResponse(TokenInvalidError)
                  ELSE ErrorResponse(auth.error)
       /\ UNCHANGED <<users, tasks, nextTaskId, now, issued, settings, console_tasks, added_ids, inflight>>

Authenticate(header) ==
    LET auth == get_current_user_id(header, now)
    IN /\ req' = [op |-> "auth", header |-> header, at |-> now,
                  ok |-> auth.ok, identity |-> auth.user_id]
       /\ resp' = IF auth.ok THEN NoResponse ELSE ErrorResponse(auth.error)
       /\ UNCHANGED <<users, tasks, nextTaskId, now, issued, settings, console_tasks, added_ids, inflight>>

(***************************************************************************)
(* A request through the permissive middleware.  call_next is the rest of  *)
(* the application: "optional" is a route that reads the identity off the  *)
(* request with get_user_id_from_request, "protected" a route behind the   *)
(* strict dependency, which puts the identity on request.state itself.     *)
(***************************************************************************)
Ok(body) == [status_code |-> 200, error |-> "", message |-> "", body |-> body]

CallNext(handler, state, header, t) ==
    IF handler = "optional" THEN Ok([user_id |-> get_user_id_from_request(state)])
    ELSE LET auth == get_current_user_id(header, t)
         IN IF auth.ok THEN Ok([user_id |-> auth.user_id]) ELSE ErrorResponse(auth.error)

Dispatch(exclude_paths, path, header, handler) ==
    LET m == AuthMiddleware(exclude_paths, path, header, now)
        next == CallNext(handler, m, header, now)
    IN /\ req' = [op |-> "dispatch", exclude_paths |-> exclude_paths, path |-> path,
                  header |-> header, handler |-> handler, at |-> now,
                  verified |-> m.verified, attached |-> m.user_id, caught |-> m.caught,
                  logged |-> m.logged,
                  calls |-> IF m.call_next THEN 1 ELSE 0, next |-> next]
       /\ resp' = IF m.call_next THEN next ELSE ErrorResponse(TokenInvalidError)
       /\ UNCHANGED <<users, tasks, nextTaskId, now, issued, settings, console_tasks, added_ids, inflight>>

\* a request the dependency let through and no handler has answered
Authenticated == req.op = "auth" /\ req.ok

Request(op, task_id, body, query) ==
    [op |-> op, identity |-> req.identity, task_id |-> task_id, body |-> body,
     query |-> query, ran |-> TRUE]

NoBody == Body(Unset, Unset, Unset, <<>>)
NoQuery == [page |-> 0, limit |-> 0, status |-> None, priority |-> None, sort |-> <<>>]

\* the framework's 422 for a body or a path parameter off the schema: the
\* handler does not run
Invalid(r) ==
    /\ req' = [r EXCEPT !.ran = FALSE]
    /\ resp' = ErrorResponse(RequestValidationError)
    /\ UNCHANGED <<users, tasks, nextTaskId, now, issued, settings, console_tasks, added_ids, inflight>>

ListTasks(query) ==
    /\ Authenticated
    /\ req' = Request("list_tasks", <<>>, NoBody, query)
    /\ UNCHANGED <<users, tasks, nextTaskId, now, issued, settings, console_tasks, added_ids, inflight>>
    /\ IF ~IsUuidString(req.identity) THEN resp' = ValueErrorResponse
       ELSE LET rows == Where(tasks, UUID(req.identity), query.status, query.priority)
            IN IF ~SortValid(query.sort)
               THEN resp' = http_exception_handler(InvalidSortField)
               ELSE \E o \in Orderings(rows, query.sort) :
                      LET items == Page(o, query.page, query.limit)
                      IN IF \E i \in 1..Len(items) : ~TaskResponseValid(items[i])
                         THEN resp' = ValueErrorResponse
                         ELSE resp' = [status_code |-> 200, error |-> "", message |-> "",
                                       body |-> [total |-> Cardinality(rows),
                                                 page |-> query.page,
                                                 limit |-> query.limit,
                                                 items |-> [i \in 1..Len(items) |->
                                                              TaskResponse(items[i])]]]

\* return TaskResponse.model_validate(task)
Returned(status_code, task) ==
    IF ~TaskResponseValid(task) THEN ValueErrorResponse
    ELSE [status_code |-> status_code, error |-> "", message |-> "",
          body |-> TaskResponse(task)]

CreateTask(body) ==
    /\ Authenticated
    /\ IF ~TaskCreateValid(body) THEN Invalid(Request("create_task", <<>>, body, NoQuery))
       ELSE /\ nextTaskId <= MaxTasks
            /\ req' = Request("create_task", <<>>, body, NoQuery)
            /\ UNCHANGED <<users, now, issued, settings, console_tasks, added_ids, inflight>>
            /\ IF ~IsUuidString(req.identity)
               THEN /\ resp' = ValueErrorResponse
                    /\ UNCHANGED <<tasks, nextTaskId, settings, console_tasks, added_ids, inflight>>
               ELSE LET task == Task([int |-> nextTaskId], TaskCreateDict(body),
                                     TaskOwner(body, req.identity), now)
                    IN /\ tasks' = tasks \cup {task}
                       /\ nextTaskId' = nextTaskId + 1
                       /\ resp' = Returned(201, task)

\* the ownership guard shared by get, put, patch and delete:
\* 404 when absent, 403 when owned by someone else
Guard(found, user_id, op) ==
    IF found = {} THEN TaskNotFound(op)
    ELSE IF (CHOOSE x \in found : TRUE).user_id # UUID(user_id) THEN TaskNotAuthorized(op)
    ELSE NoException

\* the lookup and the guard let the request of the identity through
PassesAs(got, identity) ==
    /\ ~got.raised
    /\ got.found # {}
    /\ IsUuidString(identity)
    /\ Guard(got.found, identity, "") = NoException

Passes(got) == PassesAs(got, req.identity)

\* the answer of a by-id route whose lookup raised or whose guard refused
RefusedAs(got, identity, op) ==
    IF got.raised THEN InternalServerError
    ELSE IF got.found # {} /\ ~IsUuidString(identity) THEN ValueErrorResponse
    ELSE http_exception_handler(Guard(got.found, identity, op))

Refused(got, op) == RefusedAs(got, req.identity, op)

GetTask(task_id) ==
    /\ Authenticated
    /\ IF ~PathValid(task_id) THEN Invalid(Request("get_task", task_id, NoBody, NoQuery))
       ELSE /\ req' = Request("get_task", task_id, NoBody, NoQuery)
            /\ UNCHANGED <<users, tasks, nextTaskId, now, issued, settings, console_tasks, added_ids, inflight>>
            /\ \E got \in GetTaskById(tasks, UUID(task_id)) :
                 IF ~Passes(got) THEN resp' = Refused(got, "get_task")
                 ELSE resp' = Returned(200, CHOOSE x \in got.found : TRUE)

Replace(table, old, new) == (table \ {old}) \cup {new}

UpdateTask(task_id, body) ==
    /\ Authenticated
    /\ IF ~PathValid(task_id) \/ ~TaskCreateValid(body)
       THEN Invalid(Request("update_task", task_id, body, NoQuery))
       ELSE /\ req' = Request("update_task", task_id, body, NoQuery)
            /\ UNCHANGED <<users, nextTaskId, now, issued, settings, console_tasks, added_ids, inflight>>
            /\ \E got \in GetTaskById(tasks, UUID(task_id)) :
                 IF ~Passes(got) THEN resp' = Refused(got, "update_task") /\ UNCHANGED tasks
                 ELSE LET task == CHOOSE x \in got.found : TRUE
                          new == [SetAttrs(task, TaskCreateDict(body))
                                    EXCEPT !.updated_at = now]
                      IN /\ tasks' = Replace(tasks, task, new)
                         /\ resp' = Returned(200, new)

PatchTask(task_id, body) ==
    /\ Authenticated
    /\ IF ~PathValid(task_id) \/ ~TaskUpdateValid(body)
       THEN Invalid(Request("patch_task", task_id, body, NoQuery))
       ELSE /\ req' = Request("patch_task", task_id, body, NoQuery)
            /\ UNCHANGED <<users, nextTaskId, now, issued, settings, console_tasks, added_ids, inflight>>
            /\ \E got \in GetTaskById(tasks, UUID(task_id)) :
                 IF ~Passes(got) THEN resp' = Refused(got, "patch_task") /\ UNCHANGED tasks
                 ELSE LET task == CHOOSE x \in got.found : TRUE
                          new == [SetAttrs(task, TaskUpdateDict(body))
                                    EXCEPT !.updated_at = now]
                      IN /\ tasks' = Replace(tasks, task, new)
                         /\ resp' = Returned(200, new)

DeleteTask(task_id) ==
    /\ Authenticated
    /\ IF ~PathValid(task_id)
       THEN Invalid(Request("delete_task", task_id, NoBody, NoQuery))
       ELSE /\ req' = Request("delete_task", task_id, NoBody, NoQuery)
            /\ UNCHANGED <<users, nextTaskId, now, issued, settings, console_tasks, added_ids, inflight>>
            /\ \E got \in GetTaskById(tasks, UUID(task_id)) :
                 IF ~Passes(got) THEN resp' = Refused(got, "delete_task") /\ UNCHANGED tasks
                 ELSE /\ tasks' = tasks \ got.found
                      /\ resp' = [status_code |-> 204, error |-> "", message |-> ""]

(***************************************************************************)
(* Concurrent requests.  A put, patch or delete handler awaits the store   *)
(* twice: db.get, and db.commit.  Begin is the handler up to the return of *)
(* db.get, Finish the rest; the requests of other callers run in between.  *)
(***************************************************************************)
Begin(op, caller, task_id, body) ==
    /\ inflight[caller] = Idle
    /\ PathValid(task_id)
    /\ op = "update_task" => TaskCreateValid(body)
    /\ op = "patch_task" => TaskUpdateValid(body)
    /\ op = "delete_task" => body = NoBody
    /\ \E got \in GetTaskById(tasks, UUID(task_id)) :
         inflight' = [inflight EXCEPT ![caller] =
                        [op |-> op, task_id |-> task_id, body |-> body, got |-> got]]
    /\ UNCHANGED <<users, tasks, nextTaskId, now, issued, settings, console_tasks,
                   added_ids, req, resp>>

\* the row of the store with the primary key of the row read
Current(table, task) == {x \in table : x.id = task.id}

\* what the commit of a request that passed the guard writes: the UPDATE or
\* DELETE names the row by its primary key
Commit(table, r, task, t) ==
    LET row == CHOOSE x \in Current(table, task) : TRUE
    IN IF r.op = "delete_task" THEN table \ {row}
       ELSE IF r.op = "update_task"
       THEN Replace(table, row, [SetAttrs(row, TaskCreateDict(r.body)) EXCEPT !.updated_at = t])
       ELSE Replace(table, row, [SetAttrs(row, TaskUpdateDict(r.body)) EXCEPT !.updated_at = t])

\* a handler that writes to the row the path names by number, without guard
FinishUnguarded(caller) ==
    LET r == inflight[caller]
        named == {x \in tasks : x.id.int = r.task_id[2]}
    IN /\ r # Idle
       /\ inflight' = [inflight EXCEPT ![caller] = Idle]
       /\ req' = [op |-> r.op, identity |-> caller, task_id |-> r.task_id,
                  body |-> r.body, query |-> NoQuery, ran |-> TRUE]
       /\ IF named = {}
          THEN resp' = RefusedAs(r.got, caller, r.op) /\ UNCHANGED tasks
          ELSE /\ tasks' = Commit(tasks, r, CHOOSE x \in named : TRUE, now)
               /\ resp' = [status_code |-> 204, error |-> "", message |-> ""]
       /\ UNCHANGED <<users, nextTaskId, now, issued, settings, console_tasks, added_ids>>

Finish(caller) ==
    LET r == inflight[caller]
    IN /\ r # Idle
       /\ inflight' = [inflight EXCEPT ![caller] = Idle]
       /\ req' = [op |-> r.op, identity |-> caller, task_id |-> r.task_id,
                  body |-> r.body, query |-> NoQuery, ran |-> TRUE]
       /\ IF ~PassesAs(r.got, caller)
          THEN resp' = RefusedAs(r.got, caller, r.op) /\ UNCHANGED tasks
          ELSE LET task == CHOOSE x \in r.got.found : TRUE
               IN IF Current(tasks, task) = {}
                  THEN \* the row was deleted meanwhile: StaleDataError
                       resp' = InternalServerError /\ UNCHANGED tasks
                  ELSE /\ tasks' = Commit(tasks, r, task, now)
                       /\ resp' = IF r.op = "delete_task"
                                  THEN [status_code |-> 204, error |-> "", message |-> ""]
                                  ELSE Returned(200, CHOOSE x \in Current(tasks', task) : TRUE)
       /\ UNCHANGED <<users, nextTaskId, now, issued, settings, console_tasks, added_ids>>

(***************************************************************************)
(* Request inputs of the model.                                            *)
(***************************************************************************)
Vias == {"route", "service"}

Bodies ==
    { Body("t1", Unset, Unset, <<>>),
      Body("t2", "completed", "high", <<"uuid", 1>>),
      Body("t1", Unset, Unset, <<"uuid", 2>>),
      Body(Unset, "completed", Unset, <<>>),
      Body(Unset, Unset, "high", <<"uuid", 2>>),
      Body("", Unset, Unset, <<>>) }

\* the last path segment of a by-id request: the text of a task id, or of a UUID
TaskIds == {<<"int", n>> : n \in 1..MaxTasks} \cup {<<"uuid", n>> : n \in 1..MaxTasks}

Query(page, limit, status, priority, sort) ==
    [page |-> page, limit |-> limit, status |-> status, priority |-> priority,
     sort |-> sort]

Queries ==
    { Query(1, 2, None, None, <<<<"created_at", "desc">>>>),
      Query(1, 1, None, None, <<<<"id">>>>),
      Query(2, 1, None, None, <<<<"updated_at", "desc">>, <<"id", "desc">>>>),
      Query(1, 2, "completed", None, <<<<"id", "desc">>>>),
      Query(1, 2, None, "high", <<<<"created_at", "desc">>>>),
      Query(1, 2, None, None, <<<<"owner">>>>) }

NoTick == 4

Next ==
    \/ \E via \in Vias, e \in RawEmails, p \in Passwords :
         SignupRejected(via, e, p)
    \/ \E via \in Vias, e \in RawEmails, p \in Passwords, n \in Names,
          salt \in Salts, k \in TickPoints(now, 4) :
         Signup(via, e, p, n, salt, k)
    \/ \E e \in RawEmails, p \in Passwords, k \in TickPoints(now, 4) : Signin(e, p, k)
    \/ \E e \in RawEmails : GetUserByEmail(e)
    \/ \E u \in users : DeactivateUser(u)
    \/ Tick
    \/ Jump
    \/ \E h \in Headers : Authenticate(h)
    \/ \E q \in Queries : ListTasks(q)
    \/ \E b \in Bodies : CreateTask(b)
    \/ \E id \in TaskIds : GetTask(id)
    \/ \E id \in TaskIds, b \in Bodies : UpdateTask(id, b)
    \/ \E id \in TaskIds, b \in Bodies : PatchTask(id, b)
    \/ \E id \in TaskIds : DeleteTask(id)

Spec == Init /\ [][Next]_vars

(***************************************************************************)
(* The auth service on its own: every signup and signin input, the clock   *)
(* standing still.                                                         *)
(***************************************************************************)
NextAuth ==
    \/ \E via \in Vias, e \in RawEmails, p \in Passwords :
         SignupRejected(via, e, p)
    \/ \E via \in Vias, e \in RawEmails, p \in Passwords, n \in Names :
         Signup(via, e, p, n, 1, NoTick)
    \/ \E e \in RawEmails, p \in Passwords : Signin(e, p, NoTick)
    \/ \E e \in RawEmails : GetUserByEmail(e)
    \/ \E u \in users : DeactivateUser(u)

SpecAuth == Init /\ [][NextAuth]_vars

(***************************************************************************)
(* Tokens over time: one account, the clock, every kind of Authorization   *)
(* header at a protected route.                                            *)
(***************************************************************************)
GoodPassword == Pw("p", MIN_PASSWORD_LENGTH)

NextTokens ==
    \/ \E k \in TickPoints(now, 4) :
         Signup("route", <<"a">>, GoodPassword, NoneStr, 1, k)
    \/ \E e \in {<<"a">>, <<"A", " ">>}, k \in TickPoints(now, 4) :
         Signin(e, GoodPassword, k)
    \/ Tick
    \/ Jump
    \/ \E h \in Headers : Authenticate(h)
    \/ \E id \in TaskIds : GetTask(id)

SpecTokens == Init /\ [][NextTokens]_vars

(***************************************************************************)
(* The task routes: two accounts, the clock standing still.                *)
(***************************************************************************)
TaskHeaders ==
    {<<>>}
        \cup {<<"Bearer", t>> : t \in IssuedTokens}
        \cup {<<"Bearer", Tampered(t, u)>> : t \in IssuedTokens, u \in UserIds}

NextTasks ==
    \/ \E e \in {<<"a">>, <<"b">>} :
         Signup("route", e, GoodPassword, NoneStr, 1, NoTick)
    \/ \E e \in {<<"a">>, <<"b">>} : Signin(e, GoodPassword, NoTick)
    \/ \E h \in TaskHeaders : Authenticate(h)
    \/ \E q \in Queries : ListTasks(q)
    \/ \E b \in Bodies : CreateTask(b)
    \/ \E id \in TaskIds : GetTask(id)
    \/ \E id \in TaskIds, b \in Bodies : UpdateTask(id, b)
    \/ \E id \in TaskIds, b \in Bodies : PatchTask(id, b)
    \/ \E id \in TaskIds : DeleteTask(id)

SpecTasks == Init /\ [][NextTasks]_vars

(***************************************************************************)
(* The permissive middleware in front of an optional and a protected       *)
(* route: one account, the clock, every kind of Authorization header.      *)
(***************************************************************************)
Paths ==
    {"/health", "/", "/docs", "/openapi.json", "/api/openapi.json",
     "/api/signin", "/api/tasks"}

\* AuthMiddleware(), and AuthMiddleware(exclude_paths=[...]) as its docstring has it
ExcludePaths == { {}, {"/api/auth/signup", "/api/auth/signin"} }

NextHandlers == {"optional", "protected"}

AccessTokens == {issued[i].tokens.access_token : i \in 1..Len(issued)}

\* no header, "Bearer", "Bearer " and what a client makes of its tokens
MiddlewareHeaders ==
    {<<>>, <<"Bearer">>, <<"Bearer", EmptyToken>>, <<"Bearer", GarbageToken>>}
        \cup {<<"Bearer", t>> : t \in IssuedTokens}
        \cup {<<"bearer", t>> : t \in AccessTokens}
        \cup {<<"Basic", t>> : t \in AccessTokens}
        \cup {<<"Bearer", Forged(t)>> : t \in AccessTokens}

NextMiddleware ==
    \/ Signup("route", <<"a">>, GoodPassword, NoneStr, 1, NoTick)
    \/ Tick
    \/ Jump
    \/ CreateToken("access", [str |-> <<>>], NoDelta, NoTick)
    \/ \E x \in ExcludePaths, p \in Paths, h \in MiddlewareHeaders \cup MintedHeaders,
          n \in NextHandlers :
         Dispatch(x, p, h, n)

SpecMiddleware == Init /\ [][NextMiddleware]_vars

(***************************************************************************)
(* The token codec called directly, and the token it made presented to the *)
(* strict dependency and to the middleware.                                *)
(***************************************************************************)
\* user_id: str | UUID; the empty str leaves the token without a subject
CodecUserIds == UserIds \cup {[str |-> <<>>], [str |-> <<"uuid", 1>>]}

TokenKinds == {"access", "refresh"}

ExpiresDeltas == {NoDelta, <<timedelta(1)>>}

NextCodec ==
    \/ \E kind \in TokenKinds, u \in CodecUserIds, d \in ExpiresDeltas,
          k \in TickPoints(now, 2) :
         CreateToken(kind, u, d, k)
    \/ VerifyToken
    \/ ExtractUserId
    \/ Tick
    \/ Jump
    \/ \E h \in MintedHeaders : Authenticate(h)
    \/ \E h \in MintedHeaders, n \in NextHandlers : Dispatch({}, "/api/tasks", h, n)

SpecCodec == Init /\ [][NextCodec]_vars

(***************************************************************************)
(* One account that signs up once, is deactivated or deleted, and whose    *)
(* access tokens go on being presented at a protected route.               *)
(***************************************************************************)
NextRevoked ==
    \/ issued = <<>> /\ Signup("route", <<"a">>, GoodPassword, NoneStr, 1, NoTick)
    \/ Signin(<<"a">>, GoodPassword, NoTick)
    \/ \E u \in users : DeactivateUser(u)
    \/ \E u \in users : RemoveUser(u)
    \/ Tick
    \/ Jump
    \/ \E t \in AccessTokens : Authenticate(<<"Bearer", t>>)

SpecRevoked == Init /\ [][NextRevoked]_vars

(***************************************************************************)
(* The by-id task routes under concurrent requests of two identities.      *)
(***************************************************************************)
ConcurrentOps == {"update_task", "patch_task", "delete_task"}

ConcurrentBody(op) ==
    IF op = "update_task" THEN Body("t2", "completed", "high", <<>>)
    ELSE IF op = "patch_task" THEN Body(Unset, "completed", Unset, <<>>)
    ELSE NoBody

UuidPaths == {<<"uuid", n>> : n \in 1..MaxTasks}

NextConcurrent ==
    \/ \E e \in {<<"a">>, <<"b">>} :
         Signup("route", e, GoodPassword, NoneStr, 1, NoTick)
    \/ \E t \in AccessTokens : Authenticate(<<"Bearer", t>>)
    \/ CreateTask(Body("t1", Unset, Unset, <<>>))
    \/ \E op \in ConcurrentOps, c \in Callers, id \in UuidPaths :
         Begin(op, c, id, ConcurrentBody(op))
    \/ \E c \in Callers : Finish(c)

SpecConcurrent == Init /\ [][NextConcurrent]_vars

(***************************************************************************)
(* Boot.  jwt.py binds `settings = get_settings()` when it is imported;    *)
(* get_settings builds the Settings from the environment and validates     *)
(* them.  When validate_settings raises, the import fails: the module, and *)
(* with it every function of the codec, does not exist, and a later import *)
(* starts over.                                                            *)
(***************************************************************************)
\* BETTER_AUTH_SECRET in the environment: not set, empty, 31 and 32 characters
EnvSecrets == {NoneStr, <<>>, Pw("k", MIN_SECRET_LENGTH - 1), Pw("k", MIN_SECRET_LENGTH)}

InitBoot ==
    /\ users = {}
    /\ tasks = {}
    /\ nextTaskId = 1
    /\ now = 0
    /\ issued = <<>>
    /\ settings = NotLoaded
    /\ console_tasks = <<>>
    /\ added_ids = {}
    /\ inflight = [c \in Callers |-> Idle]
    /\ req = NoRequest
    /\ resp = NoResponse

\* @lru_cache get_settings(): the cached Settings when a call has returned
\* before, else Settings() and validate_settings(); a call that raises
\* caches nothing.  (An empty BETTER_AUTH_SECRET is read as None and is
\* refused by Settings() itself: raised either way.)
get_settings(cache, env) ==
    IF cache.loaded THEN cache
    ELSE LET s == Settings(env)
         IN IF validate_settings(s) THEN s ELSE NotLoaded

\* `settings = get_settings()` of main.py, database.py and auth/jwt.py, each
\* when its module is imported
Boot(env) ==
    /\ settings' = get_settings(settings, env)
    /\ req' = [op |-> "boot", env |-> env, raised |-> ~settings'.loaded]
    /\ UNCHANGED <<users, tasks, nextTaskId, now, issued, resp, console_tasks, added_ids, inflight>>

NextBoot ==
    \/ \E env \in EnvSecrets : Boot(env)
    \/ \E kind \in TokenKinds, u \in CodecUserIds, d \in ExpiresDeltas,
          k \in TickPoints(now, 2) :
         CreateToken(kind, u, d, k)
    \/ VerifyToken
    \/ ExtractUserId
    \/ Tick

SpecBoot == InitBoot /\ [][NextBoot]_vars

(***************************************************************************)
(* Phase 1: the console task manager.  `tasks` of task_manager.py is a     *)
(* module-level list of Task objects (console_tasks here); every function  *)
(* reads and writes it in place.  The module is used from one thread.      *)
(***************************************************************************)
Priorities == {"High", "Medium", "Low"}

\* str.isspace(): at least one character and all of them whitespace
isspace(text) == Len(text) > 0 /\ \A i \in 1..Len(text) : text[i] = " "

\* Task.__post_init__: TRUE when it raises no ValueError
post_init(title, description, priority, tags) ==
    /\ title # <<>> /\ ~isspace(title)
    /\ Len(title) <= MAX_TITLE_LENGTH
    /\ Len(description) <= MAX_DESCRIPTION_LENGTH
    /\ priority \in Priorities
    /\ Len(tags) <= MAX_TAGS
    /\ \A i \in 1..Len(tags) : Len(tags[i]) <= MAX_TAG_LENGTH

ConsoleTask(id, title, description, priority, tags, t) ==
    [id |-> id, title |-> title, description |-> description, completed |-> FALSE,
     priority |-> priority, tags |-> tags, created_at |-> t, updated_at |-> t]

IdsOf(list) == {list[i].id : i \in 1..Len(list)}

\* ids counted instead of taken from the list
generate_next_id_by_count(list) == Len(list) + 1

\* max([t.id for t in tasks], default=0) + 1
generate_next_id(list) ==
    IF list = <<>> THEN 1
    ELSE (CHOOSE m \in IdsOf(list) : \A j \in IdsOf(list) : j <= m) + 1

\* a lookup that falls back on the last task of the list
get_task_by_id_or_last(list, task_id) ==
    IF task_id \in IdsOf(list)
    THEN CHOOSE i \in 1..Len(list) :
           list[i].id = task_id /\ \A j \in 1..(i - 1) : list[j].id # task_id
    ELSE Len(list)

\* next((t for t in tasks if t.id == task_id), None): the position of the
\* first task with the id, 0 for None
get_task_by_id(list, task_id) ==
    IF task_id \in IdsOf(list)
    THEN CHOOSE i \in 1..Len(list) :
           list[i].id = task_id /\ \A j \in 1..(i - 1) : list[j].id # task_id
    ELSE 0

\* list.remove(x): the first element equal to x goes (dataclass equality
\* compares all fields)
Remove(list, x) ==
    LET i == CHOOSE k \in 1..Len(list) : list[k] = x /\ \A j \in 1..(k - 1) : list[j] # x
    IN [k \in 1..(Len(list) - 1) |-> IF k < i THEN list[k] ELSE list[k + 1]]

\* add_task: the list after the call and what it returns or raises
add_task(list, title, description, priority, tags, t) ==
    LET task_id == generate_next_id(list)
    IN IF post_init(title, description, priority, tags)
       THEN LET task == ConsoleTask(task_id, title, description, priority, tags, t)
            IN [tasks |-> Append(list, task), raised |-> FALSE, task |-> <<task>>]
       ELSE [tasks |-> list, raised |-> TRUE, task |-> <<>>]

\* an update that assigns both arguments, None included
update_task_assigning(list, task_id, title, description, t) ==
    LET i == get_task_by_id(list, task_id)
    IN IF i = 0 THEN [tasks |-> list, returned |-> FALSE]
       ELSE [tasks |-> [list EXCEPT ![i].title = title,
                                    ![i].description = description,
                                    ![i].updated_at = t],
             returned |-> TRUE]

\* update_task; NoneStr is an argument left at None
update_task(list, task_id, title, description, t) ==
    LET i == get_task_by_id(list, task_id)
    IN IF i = 0 THEN [tasks |-> list, returned |-> FALSE]
       ELSE [tasks |-> [list EXCEPT
                          ![i].title = IF title # NoneStr THEN title ELSE @,
                          ![i].description = IF description # NoneStr THEN description ELSE @,
                          ![i].updated_at = t],
             returned |-> TRUE]

delete_task(list, task_id) ==
    LET i == get_task_by_id(list, task_id)
    IN IF i = 0 THEN [tasks |-> list, returned |-> FALSE]
       ELSE [tasks |-> Remove(list, list[i]), returned |-> TRUE]

\* a toggle that marks the task completed whatever it was
toggle_complete_marking(list, task_id, t) ==
    LET i == get_task_by_id(list, task_id)
    IN IF i = 0 THEN [tasks |-> list, returned |-> FALSE]
       ELSE [tasks |-> [list EXCEPT ![i].completed = TRUE, ![i].updated_at = t],
             returned |-> TRUE]

toggle_complete(list, task_id, t) ==
    LET i == get_task_by_id(list, task_id)
    IN IF i = 0 THEN [tasks |-> list, returned |-> FALSE]
       ELSE [tasks |-> [list EXCEPT ![i].completed = ~@, ![i].updated_at = t],
             returned |-> TRUE]

ConsoleUnchanged == UNCHANGED <<users, tasks, nextTaskId, now, issued, settings, inflight>>

AddTask(title, description, priority, tags) ==
    LET r == add_task(console_tasks, title, description, priority, tags, now)
    IN /\ Len(console_tasks) < MaxTasks
       /\ generate_next_id(console_tasks) <= MaxConsoleIds
       /\ console_tasks' = r.tasks
       /\ added_ids' = IF r.raised THEN added_ids ELSE added_ids \cup {r.task[1].id}
       /\ req' = [op |-> "add_task",
                  reused |-> ~r.raised /\ r.task[1].id \in added_ids]
       /\ resp' = [raised |-> r.raised, task |-> r.task]
       /\ ConsoleUnchanged

ConsoleUpdate(task_id, title, description) ==
    LET r == update_task(console_tasks, task_id, title, description, now)
    IN /\ console_tasks' = r.tasks
       /\ req' = [op |-> "update_task", task_id |-> task_id, title |-> title,
                  description |-> description]
       /\ resp' = [returned |-> r.returned]
       /\ UNCHANGED added_ids
       /\ ConsoleUnchanged

ConsoleDelete(task_id) ==
    LET r == delete_task(console_tasks, task_id)
    IN /\ console_tasks' = r.tasks
       /\ req' = [op |-> "delete_task", task_id |-> task_id]
       /\ resp' = [returned |-> r.returned]
       /\ UNCHANGED added_ids
       /\ ConsoleUnchanged

ConsoleToggle(task_id) ==
    LET r == toggle_complete(console_tasks, task_id, now)
    IN /\ console_tasks' = r.tasks
       /\ req' = [op |-> "toggle_complete", task_id |-> task_id]
       /\ resp' = [returned |-> r.returned]
       /\ UNCHANGED added_ids
       /\ ConsoleUnchanged

ConsoleGet(task_id) ==
    LET i == get_task_by_id(console_tasks, task_id)
    IN /\ req' = [op |-> "get_task_by_id", task_id |-> task_id]
       /\ resp' = [task |-> IF i = 0 THEN <<>> ELSE <<console_tasks[i]>>]
       /\ UNCHANGED <<console_tasks, added_ids>>
       /\ ConsoleUnchanged

\* the arguments of add_task: the defaults, and each field in turn at a
\* value Task.__post_init__ takes and at values it refuses
DefaultArgs == [title |-> <<"t">>, description |-> <<>>, priority |-> "Medium", tags |-> <<>>]

AddArgs ==
    {[DefaultArgs EXCEPT !.title = x] :
        x \in {<<"t">>, <<>>, <<" ">>, Pw("u", MAX_TITLE_LENGTH + 1)}}
    \cup {[DefaultArgs EXCEPT !.description = Pw("d", MAX_DESCRIPTION_LENGTH + 1)]}
    \cup {[DefaultArgs EXCEPT !.priority = "Urgent"]}
    \cup {[DefaultArgs EXCEPT !.priority = "High", !.tags = <<Pw("g", MAX_TAG_LENGTH)>>]}
    \cup {[DefaultArgs EXCEPT !.tags = x] :
            x \in {<<Pw("g", MAX_TAG_LENGTH + 1)>>, Pw(<<"g">>, MAX_TAGS + 1)}}

\* the arguments of update_task: None, a new value, and a value
\* Task.__post_init__ would refuse
UpdateTitles == {NoneStr, <<"v">>, Pw("u", MAX_TITLE_LENGTH + 1)}
UpdateDescriptions == {NoneStr, <<"e">>}

\* the ids of the calls: the list holds at most MaxTasks of them
ConsoleIds == 1..MaxConsoleIds

NextConsole ==
    \/ \E a \in AddArgs : AddTask(a.title, a.description, a.priority, a.tags)
    \/ \E i \in ConsoleIds, title \in UpdateTitles, d \in UpdateDescriptions :
         ConsoleUpdate(i, title, d)
    \/ \E i \in ConsoleIds : ConsoleDelete(i)
    \/ \E i \in ConsoleIds : ConsoleToggle(i)
    \/ \E i \in ConsoleIds : ConsoleGet(i)
    \/ now < MaxConsoleTicks /\ Tick

SpecConsole == Init /\ [][NextConsole]_vars

(***************************************************************************)
(* Properties.                                                             *)
(***************************************************************************)
ByIdOps == {"get_task", "update_task", "patch_task", "delete_task"}

HandlerOps == ByIdOps \cup {"list_tasks", "create_task"}

\* a step in which a by-id task route answers a request whose body its
\* schema accepts
ByIdStep ==
    /\ req.op = "auth"
    /\ req'.op \in ByIdOps
    /\ req'.op \in {"update_task", "patch_task"} => req'.body.title # ""
    /\ req'.op = "update_task" => req'.body.title # Unset

OwnerOf(table, task_id) == (CHOOSE x \in table : x.id = task_id).user_id

Exists(table, task_id) == \E x \in table : x.id = task_id

\* the task a request names: the one whose id is written in the path
Named(table, path) == {x \in table : path = <<"int", x.id.int>>}

\* C1: get, put, patch and delete of one task answer 404 when no task has
\* the id, 403 when the task is owned by another identity than the caller's,
\* and are carried out (2xx, and only then may the table change) exactly
\* when the owner is the caller.
C1_OwnershipGuard ==
    [][ByIdStep =>
          LET named == Named(tasks, req'.task_id)
              caller == [uuid |-> req.identity[2]]
          IN /\ (named = {} /\ req'.task_id[1] = "uuid")
                   => resp'.status_code = 404 /\ tasks' = tasks
             /\ (\E x \in named : x.user_id # caller)
                   => resp'.status_code = 403 /\ tasks' = tasks
             /\ (\E x \in named : x.user_id = caller)
                   => resp'.status_code \in {200, 204}
             /\ tasks' # tasks => \E x \in named : x.user_id = caller]_vars

\* C2: list_tasks for identity A returns only tasks whose user_id is A, and
\* its total is the number of A's tasks that pass the filters.
C2_ListIsolation ==
    (req.op = "list_tasks" /\ resp.status_code = 200) =>
        LET caller == [uuid |-> req.identity[2]]
            items == resp.body.items
        IN /\ \A i \in 1..Len(items) : items[i].user_id = caller
           /\ resp.body.total =
                Cardinality({x \in tasks :
                    /\ x.user_id = caller
                    /\ req.query.status # None => x.status = req.query.status
                    /\ req.query.priority # None => x.priority = req.query.priority})

\* a listing that counts the caller's task while another user's task is in
\* the table
C2_Witness ==
    /\ req.op = "list_tasks"
    /\ resp.status_code = 200
    /\ resp.body.total > 0
    /\ \E x \in tasks : x.user_id # [uuid |-> req.identity[2]]

\* C7: a task id names one row, a new row is owned by the identity of the
\* create request, and no step changes the user_id of a row.
C7_OwnerFixed ==
    [][/\ \A x, y \in tasks' : x.id = y.id => x = y
       /\ \A y \in tasks' :
            IF Exists(tasks, y.id)
            THEN y.user_id = OwnerOf(tasks, y.id)
            ELSE req'.op = "create_task" /\ y.user_id = [uuid |-> req.identity[2]]]_vars

\* a create request that sent another user's id as user_id has stored its
\* task under the caller's identity
C7_Witness ==
    /\ req.op = "create_task"
    /\ req.ran
    /\ req.body.user_id # <<>>
    /\ req.body.user_id # req.identity
    /\ \E x \in tasks : x.id.int = nextTaskId - 1 /\ x.user_id = [uuid |-> req.identity[2]]

\* C3: signin answers with one and the same failure (401,
\* AUTH_INVALID_CREDENTIALS, "Invalid credentials") whether no user has the
\* email, the user is inactive, or the password does not verify.
C3_SameFailure ==
    (req.op = "signin" /\ req.cause \in {"no_user", "inactive", "bad_password"}) =>
        resp = [status_code |-> 401, error |-> "AUTH_INVALID_CREDENTIALS",
                message |-> "Invalid credentials"]

\* a signin with the right password for an account that is inactive
C3_Witness ==
    /\ req.op = "signin"
    /\ req.cause = "inactive"
    /\ \E u \in users : ~u.is_active /\ u.password_hash.digest = req.password
    /\ resp.status_code = 401

\* C4: two consecutive generate_tokens calls for the same user return
\* different access tokens (also within one clock second).
C4_DistinctTokens ==
    \A i \in 1..(Len(issued) - 1) :
        issued[i].user_id = issued[i + 1].user_id
            => issued[i].tokens.access_token # issued[i + 1].tokens.access_token

\* a token as the codec issues it: three segments, HS256, signed with the secret
WellSigned(token) ==
    /\ token.segments = 3
    /\ token.alg = "HS256"
    /\ token.sig = [key |-> BETTER_AUTH_SECRET, alg |-> "HS256", claims |-> token.claims]

ExpiredAt(token, t) == token.claims.exp < t \div TicksPerSecond

NoBearer(header) == Len(header) < 2 \/ header[1] \notin {"Bearer", "bearer"}

\* C5: at a protected route a request without bearer credentials ends with
\* TokenMissing, a token that fails verification ends the request with a
\* 401, an accepted request carries the sub claim of its verified token as
\* identity, and a handler runs only for a request the dependency accepted,
\* with that identity.
C5_StrictDependency ==
    [][/\ (req'.op = "auth" /\ NoBearer(req'.header))
             => ~req'.ok /\ resp' = [status_code |-> 401, error |-> "AUTH_TOKEN_MISSING",
                                     message |-> "Token required"]
       /\ (req'.op = "auth" /\ ~NoBearer(req'.header)
              /\ (~WellSigned(req'.header[2]) \/ ExpiredAt(req'.header[2], req'.at)))
             => ~req'.ok /\ resp'.status_code = 401
       /\ (req'.op = "auth" /\ req'.ok)
             => /\ ~NoBearer(req'.header)
                /\ WellSigned(req'.header[2])
                /\ ~ExpiredAt(req'.header[2], req'.at)
                /\ req'.identity = req'.header[2].claims.sub
       /\ (req'.op \in HandlerOps /\ req' # req)
             => req.op = "auth" /\ req.ok /\ req'.identity = req.identity]_vars

\* a handler has run for an accepted request
C5_Witness ==
    /\ req.op = "get_task"
    /\ req.ran
    /\ \E i \in 1..Len(issued) : issued[i].tokens.access_token.claims.sub = req.identity

\* C6: a correctly signed token past its exp is answered TokenExpired, a
\* token that is not correctly signed (tampered, forged, unsigned, no JWT)
\* is answered TokenInvalid, and the two answers differ.
C6_ExpiredVsInvalid ==
    (req.op = "auth" /\ ~NoBearer(req.header)) =>
        LET token == req.header[2]
            expired == [status_code |-> 401, error |-> "AUTH_TOKEN_EXPIRED",
                        message |-> "Token expired"]
            invalid == [status_code |-> 401, error |-> "AUTH_TOKEN_INVALID",
                        message |-> "Invalid token"]
        IN /\ (WellSigned(token) /\ ExpiredAt(token, req.at)) => resp = expired
           /\ ~WellSigned(token) => resp = invalid
           /\ resp = expired => WellSigned(token) /\ ExpiredAt(token, req.at)

\* an issued token was presented after its exp
C6_Witness ==
    /\ req.op = "auth"
    /\ ~NoBearer(req.header)
    /\ req.header[2] \in IssuedTokens
    /\ ExpiredAt(req.header[2], req.at)
    /\ resp.error = "AUTH_TOKEN_EXPIRED"

\* the normal form of the raw emails of the model
ExpectedEmail(raw) ==
    CASE raw = <<"a">> -> <<"a">>
      [] raw = <<"A", " ">> -> <<"a">>
      [] raw = <<"b">> -> <<"b">>

IsNormal(email) ==
    /\ \A i \in 1..Len(email) : email[i] \notin {"A", "B"}
    /\ email # <<>> => email[1] # " " /\ email[Len(email)] # " "

\* C8: no two users have the same email, every stored email is lower-cased
\* and trimmed, and signin and get_user_by_email find the user stored under
\* the lower-cased, trimmed form of the email they are given.
C8_UniqueNormalEmail ==
    /\ \A u, v \in users : u.email = v.email => u = v
    /\ \A u \in users : IsNormal(u.email)
    /\ req.op = "signin" =>
         (req.cause = "no_user" <=> ~\E u \in users : u.email = ExpectedEmail(req.email))
    /\ req.op = "get_user_by_email" =>
         {u.email : u \in resp.body.users}
            = {u.email : u \in {v \in users : v.email = ExpectedEmail(req.email)}}

\* two accounts, and a signin under a case and whitespace variant found its user
C8_Witness ==
    /\ Cardinality(users) = 2
    /\ req.op = "signin"
    /\ req.email = <<"A", " ">>
    /\ req.cause = "ok"

\* a signup step: the users table is as before or has grown
SignupStep ==
    /\ req'.op = "signup"
    /\ now' = now
    /\ users' = users \/ Cardinality(users') > Cardinality(users)

Registered(email) == \E u \in users : u.email = ExpectedEmail(email)

C10_WeakPassword ==
    req.op = "signup" =>
        LET n == Len(req.password)
            weak == [status_code |-> 422, error |-> "AUTH_WEAK_PASSWORD",
                     message |-> "Password must be at least 8 characters"]
        IN /\ req.via = "service" => (resp = weak <=> (n < 8 \/ n > 72))
           /\ req.via = "route" => (resp.status_code = 422 <=> (n < 8 \/ n > 72))
           /\ resp = weak => req.via = "service"

\* a password of 73 characters was refused as weak
C10_Witness ==
    /\ req.op = "signup"
    /\ req.via = "service"
    /\ Len(req.password) = 73
    /\ resp.error = "AUTH_WEAK_PASSWORD"

PastSkips == req.path \notin SkippedPaths /\ req.path \notin req.exclude_paths

\* the header is "Bearer <token>" with a token that is not empty
CarriesBearer(header) ==
    Len(header) >= 2 /\ header[1] = "Bearer" /\ header[2] # EmptyToken

AllowListed ==
    {"/health", "/", "/docs", "/redoc", "/api/openapi.json", "/api/signup", "/api/signin"}

\* C13: for a request to the health check, the root, a documentation
\* endpoint or a token-issuing endpoint the middleware verifies no token and
\* attaches no identity, whatever the Authorization header.
C13_AllowList ==
    (req.op = "dispatch" /\ req.path \in AllowListed) =>
        ~req.verified /\ req.attached = <<>>

\* the token with the same claims but the other type, signed with the secret
Retyped(token) ==
    LET claims == [token.claims EXCEPT
                     !.type = IF token.claims.type = "access" THEN "refresh" ELSE "access"]
    IN [token EXCEPT !.claims = claims,
                     !.sig = [key |-> BETTER_AUTH_SECRET, alg |-> token.alg,
                              claims |-> claims]]

\* C14: a correctly signed, unexpired refresh token gets its sub attached by
\* the middleware and accepted by the strict dependency, and for every
\* correctly signed token the middleware and the dependency do what they do
\* for the token of the other type with the same claims.
C14_TypeIgnored ==
    (req.op = "dispatch" /\ CarriesBearer(req.header) /\ WellSigned(req.header[2])) =>
        LET token == req.header[2]
            other == <<"Bearer", Retyped(token)>>
            m == AuthMiddleware(req.exclude_paths, req.path, other, req.at)
        IN /\ req.verified = m.verified
           /\ req.attached = m.user_id
           /\ resp = CallNext(req.handler, m, other, req.at)
           /\ (token.claims.type = "refresh" /\ ~ExpiredAt(token, req.at)
                  /\ token.claims.sub # <<>>)
                => /\ PastSkips => req.attached = token.claims.sub
                   /\ req.handler = "protected" =>
                        resp = [status_code |-> 200, error |-> "", message |-> "",
                                body |-> [user_id |-> token.claims.sub]]

\* a protected route accepted a refresh token after the access token issued
\* with it had expired
C14_Witness ==
    /\ req.op = "dispatch"
    /\ req.handler = "protected"
    /\ CarriesBearer(req.header)
    /\ resp.status_code = 200
    /\ \E i \in 1..Len(issued) :
          /\ issued[i].tokens.refresh_token = req.header[2]
          /\ ExpiredAt(issued[i].tokens.access_token, req.at)

\* a token signed with the secret, not expired at t, without a subject
NoSubject(token, t) ==
    WellSigned(token) /\ ~ExpiredAt(token, t) /\ token.claims.sub = <<>>

\* C15 as stated: verify_token and extract_user_id fail, with the missing
\* subject as the cause, for a correctly signed, unexpired token whose sub is
\* absent or empty.
C15_VerifyFails ==
    (req.op \in {"verify_token", "extract_user_id"} /\ NoSubject(req.token, req.at)) =>
        ~resp.ok /\ resp.msg = <<"Token", "missing", "'sub'", "claim">>

\* C15: for a correctly signed, unexpired token whose sub is absent or empty
\* verify_token returns the claims (no failure, and no identity in them),
\* extract_user_id fails with "Token missing 'sub' claim", the strict
\* dependency answers TokenInvalid and the middleware attaches nothing.
C15_NoIdentity ==
    /\ (req.op = "verify_token" /\ NoSubject(req.token, req.at))
          => resp.ok /\ resp.payload = req.token.claims /\ resp.user_id = <<>>
    /\ (req.op = "extract_user_id" /\ NoSubject(req.token, req.at))
          => /\ ~resp.ok
             /\ resp.user_id = <<>>
             /\ resp.msg = <<"Token", "missing", "'sub'", "claim">>
    /\ (req.op = "auth" /\ CarriesBearer(req.header) /\ NoSubject(req.header[2], req.at))
          => /\ ~req.ok
             /\ req.identity = <<>>
             /\ resp = [status_code |-> 401, error |-> "AUTH_TOKEN_INVALID",
                         message |-> "Invalid token"]
    /\ (req.op = "dispatch" /\ CarriesBearer(req.header)
           /\ NoSubject(req.header[2], req.at))
          => /\ req.attached = <<>>
             /\ req.handler = "optional" => resp.body.user_id = NoneStr
             /\ req.handler = "protected" => resp.error = "AUTH_TOKEN_INVALID"

\* extract_user_id refused a signed token without a subject
C15_Witness ==
    /\ req.op = "extract_user_id"
    /\ NoSubject(req.token, req.at)
    /\ ~resp.ok

\* the text of a user id: a str is its own text, a UUID is written out
TextOf(user_id) ==
    IF DOMAIN user_id = {"str"} THEN user_id.str ELSE <<"uuid", user_id.uuid>>

\* C16: verify_token of the token create_access_token(u) returned, called
\* before the expiry of the token, returns claims with sub = str(u) and type
\* "access" (type "refresh" for create_refresh_token(u)), and
\* extract_user_id returns str(u) when it is not empty.
C16_RoundTrip ==
    /\ (req.op = "verify_token" /\ ~ExpiredAt(req.token, req.at))
          => /\ resp.ok
             /\ resp.payload.sub = TextOf(req.user_id)
             /\ resp.payload.type = req.kind
    /\ (req.op = "extract_user_id" /\ ~ExpiredAt(req.token, req.at)
           /\ TextOf(req.user_id) # <<>>)
          => resp.ok /\ resp.user_id = TextOf(req.user_id)

\* a refresh token for a UUID was verified more than a week after its issue
C16_Witness ==
    /\ req.op = "verify_token"
    /\ req.kind = "refresh"
    /\ req.user_id \in UserIds
    /\ req.expires_delta = NoDelta
    /\ req.at >= JumpTicks
    /\ req.token.claims.iat = 0
    /\ resp.ok

\* C19: the exp claim of a token is its iat claim plus the lifetime: 7 days
\* for an access token and 30 days for a refresh token issued without
\* expires_delta, and expires_delta when it is passed.
C19_Lifetime ==
    req.op = "create_token" =>
        LET lifetime == IF req.expires_delta # NoDelta
                        THEN req.expires_delta[1] \div TicksPerSecond
                        ELSE IF req.kind = "access" THEN 7 * 24 * 3600
                        ELSE 30 * 24 * 3600
        IN req.token.claims.exp = req.token.claims.iat + lifetime

\* the secret the environment gives the settings
SecretOf(env) == IF env = <<"None">> THEN Pw("s", 47) ELSE env

CodecOps == {"create_token", "verify_token", "extract_user_id"}

\* C20: loading the settings raises when the secret has fewer than 32
\* characters and then no settings are held; a token is issued or verified
\* only with settings loaded, whose secret has at least 32 characters and
\* signs the token issued; and settings once loaded never change.
C20_SecretAtBoot ==
    [][/\ (req'.op = "boot" /\ req' # req /\ ~settings.loaded) =>
            IF Len(SecretOf(req'.env)) < 32
            THEN req'.raised /\ ~settings'.loaded
            ELSE /\ ~req'.raised
                 /\ settings'.loaded
                 /\ settings'.BETTER_AUTH_SECRET = SecretOf(req'.env)
       /\ settings.loaded => settings' = settings
       /\ (req'.op \in CodecOps /\ <<req', resp'>> # <<req, resp>>)
             => /\ settings.loaded
                /\ Len(settings.BETTER_AUTH_SECRET) >= 32
                /\ req'.op = "create_token" =>
                     req'.token.sig.key = settings.BETTER_AUTH_SECRET]_vars

\* the settings hold a secret of exactly 32 characters, and a token signed
\* with it was verified
C20_Witness ==
    /\ req.op = "verify_token"
    /\ resp.ok
    /\ Len(settings.BETTER_AUTH_SECRET) = 32
    /\ req.token.sig.key = settings.BETTER_AUTH_SECRET

\* C17: a verification failure raised inside the middleware reaches a
\* response (the client is answered with an error) or a log record.
C17_NothingSwallowed ==
    (req.op = "dispatch" /\ req.caught # <<>>) =>
        \/ resp.status_code >= 400
        \/ req.logged # <<>>

UserResponseFields == {"id", "email", "name", "created_at", "updated_at", "is_active"}

\* C18: a response of POST /signup or POST /signin carries no password_hash:
\* the user of a body has the six fields of UserResponse, and the text of an
\* error message holds no password_hash.
C18_NoPasswordHash ==
    (/\ req.op \in {"signup", "signin"}
     /\ req.op = "signup" => req.via = "route")
      => /\ "body" \in DOMAIN resp => DOMAIN resp.body.user = UserResponseFields
         /\ "text" \in DOMAIN resp =>
              "password_hash" \notin DOMAIN resp.text.parameters

\* C21: the id add_task gives a new task is the id of no task added before,
\* deleted ones included.
C21_IdNeverReused ==
    req.op = "add_task" => ~req.reused

\* C22: every task in the list satisfies the field constraints of
\* Task.__post_init__.
C22_FieldConstraints ==
    \A i \in 1..Len(console_tasks) :
        LET t == console_tasks[i]
        IN /\ t.title # <<>> /\ ~isspace(t.title) /\ Len(t.title) <= 200
           /\ Len(t.description) <= 1000
           /\ t.priority \in {"High", "Medium", "Low"}
           /\ Len(t.tags) <= 5
           /\ \A k \in 1..Len(t.tags) : Len(t.tags[k]) <= 20

\* a step that is a call of one of the functions named (the clock stands
\* still during a call)
ConsoleCall(ops) == req'.op \in ops /\ now' = now

\* C23: update_task, delete_task and toggle_complete with an id no task of
\* the list has return False and leave the list as it was.
C23_UnknownId ==
    [][(/\ ConsoleCall({"update_task", "delete_task", "toggle_complete"})
        /\ req'.task_id \notin IdsOf(console_tasks))
          => /\ resp'.returned = FALSE
             /\ console_tasks' = console_tasks]_vars

\* toggle_complete was refused for an id that a task of the list had before
\* it was deleted, with another task in the list
C23_Witness ==
    /\ req.op = "toggle_complete"
    /\ resp.returned = FALSE
    /\ req.task_id \in added_ids
    /\ console_tasks # <<>>

\* C24: update_task on a task of the list returns True, sets the title and
\* the description passed (an argument left at None keeps the old value) and
\* updated_at, keeps id, created_at, completed, priority and tags, and leaves
\* every other task as it was.
C24_UpdateFrame ==
    [][(/\ ConsoleCall({"update_task"})
        /\ req'.task_id \in IdsOf(console_tasks))
          => /\ resp'.returned = TRUE
             /\ Len(console_tasks') = Len(console_tasks)
             /\ \A i \in 1..Len(console_tasks) :
                  LET old == console_tasks[i]
                      new == console_tasks'[i]
                  IN IF old.id # req'.task_id THEN new = old
                     ELSE /\ new.id = old.id
                          /\ new.created_at = old.created_at
                          /\ new.completed = old.completed
                          /\ new.priority = old.priority
                          /\ new.tags = old.tags
                          /\ new.title = IF req'.title = <<"None">> THEN old.title
                                          ELSE req'.title
                          /\ new.description = IF req'.description = <<"None">>
                                                THEN old.description
                                                ELSE req'.description
                          /\ new.updated_at = now]_vars

\* only the description of the second of two tasks was updated, after the
\* task was created and completed
C24_Witness ==
    /\ req.op = "update_task"
    /\ resp.returned
    /\ req.title = <<"None">>
    /\ req.description = <<"e">>
    /\ Len(console_tasks) = 2
    /\ console_tasks[2].id = req.task_id
    /\ console_tasks[2].title = <<"t">>
    /\ console_tasks[2].description = <<"e">>
    /\ console_tasks[2].completed
    /\ console_tasks[2].priority = "High"
    /\ console_tasks[2].updated_at > console_tasks[2].created_at

CompletedOf(list) == [i \in 1..Len(list) |-> list[i].completed]

\* C25: toggle_complete on a task of the list returns True and flips its
\* completed flag, the flag of no other task changes, and a second call on
\* the same task gives every flag its first value again.
C25_ToggleFlips ==
    [][/\ (/\ ConsoleCall({"toggle_complete"})
           /\ req'.task_id \in IdsOf(console_tasks))
             => /\ resp'.returned = TRUE
                /\ Len(console_tasks') = Len(console_tasks)
                /\ \A i \in 1..Len(console_tasks) :
                     console_tasks'[i].completed =
                       IF console_tasks[i].id = req'.task_id
                       THEN ~console_tasks[i].completed
                       ELSE console_tasks[i].completed
       /\ \A id \in IdsOf(console_tasks) :
            LET once == toggle_complete(console_tasks, id, now)
                twice == toggle_complete(once.tasks, id, now)
            IN /\ once.returned /\ twice.returned
               /\ CompletedOf(once.tasks) # CompletedOf(console_tasks)
               /\ CompletedOf(twice.tasks) = CompletedOf(console_tasks)]_vars

\* a toggle made the first task pending again while the second is completed
C25_Witness ==
    /\ req.op = "toggle_complete"
    /\ resp.returned
    /\ Len(console_tasks) = 2
    /\ console_tasks[1].id = req.task_id
    /\ ~console_tasks[1].completed
    /\ console_tasks[2].completed

\* C30: no two tasks of the list have the same id, and get_task_by_id
\* returns the one task with the id asked for, None when there is none.
C30_UniqueIds ==
    /\ \A i, j \in 1..Len(console_tasks) :
         console_tasks[i].id = console_tasks[j].id => i = j
    /\ req.op = "get_task_by_id" =>
         LET found == {i \in 1..Len(console_tasks) : console_tasks[i].id = req.task_id}
         IN IF found = {} THEN resp.task = <<>>
            ELSE /\ Cardinality(found) = 1
                 /\ \A i \in found : resp.task = <<console_tasks[i]>>

\* the second of two tasks was found by its id, the first task added having
\* been deleted
C30_Witness ==
    /\ req.op = "get_task_by_id"
    /\ Len(console_tasks) = 2
    /\ console_tasks[1].id = 2
    /\ console_tasks[2].id = 3
    /\ req.task_id = 3
    /\ resp.task = <<console_tasks[2]>>


\* the caller's request in flight is answered in this step
FinishedBy(c) == inflight[c] # Idle /\ inflight'[c] = Idle

IssuedTo(header, user_id) ==
    \E i \in 1..Len(issued) : /\ issued[i].tokens.access_token = header[2]
                               /\ issued[i].user_id = user_id

\* the store holds an active record with the email
ActiveHolder(email) ==
    \E u \in users : u.email = NormalizeEmail(email) /\ u.is_active

\* C27: an access token issued to a user yields that user's identity at a
\* protected route whenever it is presented before its exp, whatever the
\* user store holds then (the record active, deactivated or gone), while a
\* signin to an account that is deactivated or gone fails with 401 and
\* issues no tokens.
C27_TokenOutlivesAccount ==
    [][/\ \A id \in UserIds :
            (/\ req'.op = "auth"
             /\ IssuedTo(req'.header, id)
             /\ ~ExpiredAt(req'.header[2], req'.at))
              => req'.ok /\ req'.identity = Str(id) /\ resp' = NoResponse
       /\ (/\ req'.op = "signin" /\ users' = users /\ now' = now
            /\ ~ActiveHolder(req'.email))
              => resp'.status_code = 401 /\ issued' = issued]_vars

\* the dependency accepted a token of a user whose record is no longer in
\* the store, at a later time than the token was issued
C27_Witness ==
    /\ req.op = "auth"
    /\ req.ok
    /\ \E id \in UserIds : /\ IssuedTo(req.header, id)
                            /\ req.identity = Str(id)
                            /\ \A u \in users : u.id # id
    /\ req.header[2].claims.iat < req.at


\* the step sets is_active of one record to false
Deactivation ==
    \E u \in users : u.is_active /\ users' = (users \ {u}) \cup {[u EXCEPT !.is_active = FALSE]}

\* C28: a signup that fails (WeakPassword, the 422 of the schema, EmailExists
\* after the rollback, or the refusal of the store) leaves the users table
\* exactly as it was, the record holding the email included, and issues no
\* tokens.
C28_FailedSignupFrame ==
    [][(/\ req'.op = "signup"
        /\ ~Deactivation
        /\ resp'.error # "")
          => /\ users' = users
             /\ issued' = issued
             /\ "body" \notin DOMAIN resp']_vars

\* a signup with another password for the email of a deactivated account
\* was answered EmailExists, and the account is as it was
C28_Witness ==
    /\ req.op = "signup"
    /\ resp.error = "AUTH_EMAIL_EXISTS"
    /\ \E u \in users : /\ u.email = NormalizeEmail(req.email)
                         /\ ~u.is_active
                         /\ u.password_hash.digest # req.password


\* C29: the expires_in that generate_tokens returns is the lifetime in
\* seconds, exp - iat, of the access token returned with it.
C29_ExpiresInIsLifetime ==
    \A i \in 1..Len(issued) :
        LET tokens == issued[i].tokens
        IN tokens.expires_in = tokens.access_token.claims.exp - tokens.access_token.claims.iat

=============================================================================
